---- MODULE Spec2Model ----
(***************************************************************************)
(* ALE-Bench: the Session state machine (src/ale_bench/session.py) and the *)
(* case runner (src/ale_bench/tool_wrappers/case_runner.py).               *)
(*                                                                         *)
(* Time is counted in integer ticks and execution time in integer units.   *)
(* The tool wrappers a Session calls (generate_inputs, run_cases,          *)
(* run_code, local_visualization) are collaborators of the Session: each   *)
(* call either raises or returns, and what it returns is an input of the   *)
(* action.  Session._last_private_eval_time is written by private_eval and *)
(* read by no guard and no action; it is not part of the state here.       *)
(***************************************************************************)
EXTENDS Integers, Sequences, FiniteSets, TLC

\* ------------------------------------------------------------------ bounds
MaxCaseGen == 1
MaxCaseEval == 1
MaxExecTime == 1
MaxPublicEval == 2
MaxSeeds == 2
MaxCaseTime == 1
MaxLog == 1
SessionDuration == 2
SubmissionInterval == 1

\* ------------------------------------------------------- program constants
MaxPrivateEval == 1
EpochTime == -1000

VARIABLES
    now,                      \* dt.datetime.now(): the wall clock
    current_resource_usage,   \* Session._current_resource_usage
    action_log,               \* Session._action_log (function names)
    last_public_eval_time,    \* Session._last_public_eval_time
    use_same_time_scale,      \* Session._use_same_time_scale
    last_call,                \* what the most recent step did
    r_args,                   \* the arguments of the run_cases invocation
    r_pc,                     \* where the run_cases invocation is
    r_results,                \* case_results
    r_futures,                \* the state of each submitted future
    r_collected,              \* the futures as_completed has yielded
    r_raised,                 \* run_cases ended by raising
    m_sessions,               \* the keys of AppContext.ale_bench_sessions
    m_inflight,               \* per problem id, the Session calls in progress
    observed,                 \* what the caller has read from properties and snapshots
    f_op,                     \* the function applied last
    f_in,                     \* its arguments
    f_out,                    \* what it returned
    b_sandbox,                \* ModalBackend.sandbox (0 is None)
    b_created,                \* the sandboxes created so far
    b_pc,                     \* where each worker's write_file call is
    b_local,                  \* each call's local variable sandbox
    b_chunks,                 \* num_chunks of each call
    b_i,                      \* the chunks each call has uploaded
    b_upload,                 \* per sandbox, /tmp/_upload.b64 (<<>> is no file)
    b_files,                  \* per sandbox and remote_path, the file's content
    b_raised,                 \* the calls that raised
    l_global,                 \* SHARED_ASYNC_LOOP (0 is None)
    l_lock,                   \* the thread holding SHARED_ASYNC_LOOP_LOCK (0 is none)
    l_loops,                  \* the state of the event loop of every instance made
    l_pc,                     \* where each thread's call is
    l_ref,                    \* the instance each thread was last handed (0 is none)
    l_raised                  \* whether each thread's last call raised

svars == <<now, current_resource_usage, action_log, last_public_eval_time,
           use_same_time_scale, last_call>>

rvars == <<r_args, r_pc, r_results, r_futures, r_collected, r_raised>>

mvars == <<m_sessions, m_inflight>>

ovars == <<observed>>

fvars == <<f_op, f_in, f_out>>

bvars == <<b_sandbox, b_created, b_pc, b_local, b_chunks, b_i, b_upload, b_files,
           b_raised>>

lvars == <<l_global, l_lock, l_loops, l_pc, l_ref, l_raised>>

vars == <<svars, rvars, mvars, ovars, fvars, bvars, lvars>>

\* ----------------------------------------------------------- ResourceUsage
Fields == {"num_case_gen", "num_case_eval", "execution_time_case_eval",
           "num_call_public_eval", "num_call_private_eval"}

ResourceUsage(g, e, t, pu, pr) ==
    [num_case_gen |-> g, num_case_eval |-> e, execution_time_case_eval |-> t,
     num_call_public_eval |-> pu, num_call_private_eval |-> pr]

\* an update that assigns the action's consumption in place of adding it
ResourceUsageAdd_assigned(a, b) == b

ResourceUsageAdd(a, b) == [f \in Fields |-> a[f] + b[f]]

maximum_resource_usage ==
    ResourceUsage(MaxCaseGen, MaxCaseEval, MaxExecTime, MaxPublicEval, MaxPrivateEval)

session_started_at == 0

session_duration == SessionDuration

AleBenchFunction ==
    {"code_run", "case_gen", "case_eval", "case_gen_eval", "public_eval", "private_eval"}

\* a table whose case_gen_eval row guards the generation side only
CHECK_RESOURCE_USAGE_FIELDS_gen_only(fn) ==
    CASE fn = "code_run" -> {"execution_time_case_eval"}
      [] fn = "case_gen" -> {"num_case_gen"}
      [] fn = "case_eval" -> {"num_case_eval", "execution_time_case_eval"}
      [] fn = "case_gen_eval" -> {"num_case_gen"}
      [] fn = "public_eval" -> {"num_call_public_eval"}
      [] fn = "private_eval" -> {"num_call_private_eval"}

CHECK_RESOURCE_USAGE_FIELDS(fn) ==
    CASE fn = "code_run" -> {"execution_time_case_eval"}
      [] fn = "case_gen" -> {"num_case_gen"}
      [] fn = "case_eval" -> {"num_case_eval", "execution_time_case_eval"}
      [] fn = "case_gen_eval" -> {"num_case_gen", "num_case_eval", "execution_time_case_eval"}
      [] fn = "public_eval" -> {"num_call_public_eval"}
      [] fn = "private_eval" -> {"num_call_private_eval"}

\* ---------------------------------------------------------------- checkers
\* a remaining time that is still positive at the very end of the session
session_remaining_time_late(t) == session_started_at + session_duration - t + 1

session_remaining_time(t) == session_started_at + session_duration - t

\* a next evaluation time that forgets the submission interval
next_public_eval_time_no_interval(lpub, same) == lpub

next_public_eval_time(lpub, same) ==
    IF same THEN lpub + SubmissionInterval ELSE lpub

\* a pre-check with "<=" in place of "<"
WithinBefore_le(cur, max) == cur <= max

\* the comparison of one guarded field before the action (strict)
WithinBefore(cur, max) == cur < max

\* the comparison of one guarded field after the action ("<=" allows the last action)
WithinAfter(cur, max) == cur <= max

\* _check_within_resource_usage_before: "ok" when it returns True, otherwise
\* the AleBenchError it raises
check_within_resource_usage_before(fn, t, cur, lpub, same) ==
    IF session_remaining_time(t) <= 0 THEN "already_finished"
    ELSE IF ~(\A f \in CHECK_RESOURCE_USAGE_FIELDS(fn) :
                WithinBefore(cur[f], maximum_resource_usage[f]))
         THEN "exceeded_before"
    ELSE IF same /\ fn = "public_eval" /\ t < next_public_eval_time(lpub, same)
         THEN "interval"
    ELSE "ok"

\* a post-check that never raises
check_within_resource_usage_after_never(fn, cur) == TRUE

\* _check_within_resource_usage_after: TRUE when it returns True, FALSE when it raises
check_within_resource_usage_after(fn, cur) ==
    \A f \in CHECK_RESOURCE_USAGE_FIELDS(fn) :
        WithinAfter(cur[f], maximum_resource_usage[f])

\* a session_finished that looks at the clock only
session_finished_raises_time_only(t, cur, lpub, same) == session_remaining_time(t) <= 0

\* session_finished: the property never returns True; it returns False or
\* raises, and every caller turns the raise into "The session is finished."
session_finished_raises(t, cur, lpub, same) ==
    check_within_resource_usage_before("private_eval", t, cur, lpub, same) # "ok"

\* a preprocessing that lets a first private_eval through after the end
Preprocess_private_eval_any_time(fn, t, cur, lpub, same) ==
    IF fn = "private_eval" /\ cur.num_call_private_eval = 0 THEN "ok"
    ELSE IF session_finished_raises(t, cur, lpub, same) THEN "session_finished"
    ELSE check_within_resource_usage_before(fn, t, cur, lpub, same)

\* the preprocessing every guarded action starts with: the session_finished
\* test, then the action's own pre-check
Preprocess(fn, t, cur, lpub, same) ==
    IF session_finished_raises(t, cur, lpub, same) THEN "session_finished"
    ELSE check_within_resource_usage_before(fn, t, cur, lpub, same)

\* ------------------------------------------------------------ step records
Call(fn, error, failed_in, work, n) ==
    [fn |-> fn, error |-> error, failed_in |-> failed_in, work |-> work, n |-> n]

NoCall == Call("none", "none", "none", {}, 0)

Actions == AleBenchFunction \cup {"local_visualization"}

Refusals == {"session_finished", "already_finished", "exceeded_before", "interval"}

RECURSIVE SumTimes(_)
SumTimes(s) == IF s = <<>> THEN 0 ELSE Head(s) + SumTimes(Tail(s))

\* what run_cases can hand back for n inputs: it raises, or it returns one
\* execution time per input.  The Session reads the times through their sum
\* only, so they are enumerated up to order.
RunOutcomes(n) ==
    {[raised |-> TRUE, times |-> <<>>]}
        \cup {[raised |-> FALSE, times |-> ts] :
                 ts \in {s \in [1..n -> 0..MaxCaseTime] :
                            \A i \in 1..(n - 1) : s[i] <= s[i + 1]}}

GenOutcomes == {"ok", "raise", "short"}

\* the values of an input that is only read when the call got that far
Choices(reached, S, dflt) == IF reached THEN S ELSE {dflt}

NoRun == [raised |-> FALSE, times |-> <<>>]

Finish(cur, log, lpub, t, call) ==
    /\ current_resource_usage' = cur
    /\ action_log' = log
    /\ last_public_eval_time' = lpub
    /\ now' = t
    /\ last_call' = call
    /\ Len(log) <= MaxLog
    /\ UNCHANGED use_same_time_scale
    /\ UNCHANGED rvars
    /\ UNCHANGED mvars
    /\ UNCHANGED ovars
    /\ UNCHANGED fvars
    /\ UNCHANGED bvars
    /\ UNCHANGED lvars

\* a refusal that records the time of the call as an evaluation time
Refuse_stamps(call) ==
    Finish(current_resource_usage, action_log, now, now, call)

Refuse(call) ==
    Finish(current_resource_usage, action_log, last_public_eval_time, now, call)

\* -------------------------------------------------------------------- Init
SessionInit ==
    /\ now = 0
    /\ current_resource_usage = ResourceUsage(0, 0, 0, 0, 0)
    /\ action_log = <<>>
    /\ last_public_eval_time = EpochTime
    /\ use_same_time_scale \in BOOLEAN
    /\ last_call = NoCall

RunIdle ==
    /\ r_args = [n |-> 0]
    /\ r_pc = "idle"
    /\ r_results = <<>>
    /\ r_futures = <<>>
    /\ r_collected = {}
    /\ r_raised = FALSE

\* the problem ids a client of the MCP server can name
NumProblems == 5

ProblemIds == 1..NumProblems

\* app_lifespan: no session yet
ServerIdle ==
    /\ m_sessions = {}
    /\ m_inflight = [p \in ProblemIds |-> <<>>]

\* the caller has read nothing yet
NothingObserved == observed = {}

\* no function has been applied yet
NothingApplied ==
    /\ f_op = "none"
    /\ f_in = <<>>
    /\ f_out = <<>>

\* the workers that call primitives of one ModalBackend
Workers == {1, 2}

\* a fresh ModalBackend: __init__ sets sandbox to None
NoSandbox ==
    /\ b_sandbox = 0
    /\ b_created = 0
    /\ b_pc = [w \in Workers |-> "idle"]
    /\ b_local = [w \in Workers |-> 0]
    /\ b_chunks = [w \in Workers |-> 0]
    /\ b_i = [w \in Workers |-> 0]
    /\ b_upload = <<>>
    /\ b_files = <<>>
    /\ b_raised = {}

\* the module as imported: SHARED_ASYNC_LOOP is None and the lock is free
NoLoop ==
    /\ l_global = 0
    /\ l_lock = 0
    /\ l_loops = <<>>
    /\ l_pc = [w \in Workers |-> "idle"]
    /\ l_ref = [w \in Workers |-> 0]
    /\ l_raised = [w \in Workers |-> FALSE]

Init ==
    /\ SessionInit /\ RunIdle /\ ServerIdle /\ NothingObserved /\ NothingApplied
    /\ NoSandbox
    /\ NoLoop

\* ----------------------------------------------------------------- actions
\* the caller takes the result (or the error) of the call it made; the
\* Session is used by one caller, one call at a time
Returned ==
    /\ last_call # NoCall
    /\ Finish(current_resource_usage, action_log, last_public_eval_time, now, NoCall)

Tick ==
    /\ last_call = NoCall
    /\ now < SessionDuration
    /\ Finish(current_resource_usage, action_log, last_public_eval_time, now + 1, NoCall)

code_run ==
    /\ last_call = NoCall
    /\ \E args_ok \in Choices(Preprocess("code_run", now, current_resource_usage,
                                          last_public_eval_time, use_same_time_scale) = "ok",
                               BOOLEAN, TRUE) :
       \E tool_ok \in Choices(args_ok, BOOLEAN, TRUE) :
       \E exec \in Choices(tool_ok, 0..MaxCaseTime, 0) :
        LET pre == Preprocess("code_run", now, current_resource_usage,
                              last_public_eval_time, use_same_time_scale)
            cur2 == ResourceUsageAdd(current_resource_usage, ResourceUsage(0, 0, exec, 0, 0))
        IN  IF pre # "ok" THEN Refuse(Call("code_run", pre, "code_run", {}, 1))
            ELSE IF ~args_ok THEN Refuse(Call("code_run", "argument", "code_run", {}, 1))
            ELSE IF ~tool_ok THEN Refuse(Call("code_run", "tool", "code_run", {"code"}, 1))
            ELSE IF ~check_within_resource_usage_after("code_run", cur2)
                 THEN Finish(cur2, action_log, last_public_eval_time, now,
                             Call("code_run", "exceeded_after", "code_run", {"code"}, 1))
            ELSE Finish(cur2, Append(action_log, "code_run"), last_public_eval_time, now,
                        Call("code_run", "none", "none", {"code"}, 1))

\* case_gen (session.py 214-263) as a function of the state it reads: the
\* usage and log it leaves, the error it raises ("none" when it returns) and
\* the collaborators it invoked
Outcome(cur, log, error, work) == [cur |-> cur, log |-> log, error |-> error, work |-> work]

\* a case_gen that writes its record before its post-check
case_gen_result_logs_first(t, cur, log, lpub, same, n, seed_ok, gen_out) ==
    LET pre == Preprocess("case_gen", t, cur, lpub, same)
        cur2 == ResourceUsageAdd(cur, ResourceUsage(n, 0, 0, 0, 0))
    IN  IF pre # "ok" THEN Outcome(cur, log, pre, {})
        ELSE IF ~seed_ok THEN Outcome(cur, log, "argument", {})
        ELSE IF gen_out = "raise" THEN Outcome(cur, log, "tool", {"gen"})
        ELSE IF gen_out = "short" \/ n = 0 THEN Outcome(cur, log, "generation_failed", {"gen"})
        ELSE IF ~check_within_resource_usage_after("case_gen", cur2)
             THEN Outcome(cur2, Append(log, "case_gen"), "exceeded_after", {"gen"})
        ELSE Outcome(cur2, Append(log, "case_gen"), "none", {"gen"})

\* a case_gen without the test of len(generated_cases) == 0
case_gen_result_accepts_empty(t, cur, log, lpub, same, n, seed_ok, gen_out) ==
    LET pre == Preprocess("case_gen", t, cur, lpub, same)
        cur2 == ResourceUsageAdd(cur, ResourceUsage(n, 0, 0, 0, 0))
    IN  IF pre # "ok" THEN Outcome(cur, log, pre, {})
        ELSE IF ~seed_ok THEN Outcome(cur, log, "argument", {})
        ELSE IF gen_out = "raise" THEN Outcome(cur, log, "tool", {"gen"})
        ELSE IF gen_out = "short" THEN Outcome(cur, log, "generation_failed", {"gen"})
        ELSE IF ~check_within_resource_usage_after("case_gen", cur2)
             THEN Outcome(cur2, log, "exceeded_after", {"gen"})
        ELSE Outcome(cur2, Append(log, "case_gen"), "none", {"gen"})

\* case_gen (session.py 214-263)
case_gen_result(t, cur, log, lpub, same, n, seed_ok, gen_out) ==
    LET pre == Preprocess("case_gen", t, cur, lpub, same)
        cur2 == ResourceUsageAdd(cur, ResourceUsage(n, 0, 0, 0, 0))
    IN  IF pre # "ok" THEN Outcome(cur, log, pre, {})
        ELSE IF ~seed_ok THEN Outcome(cur, log, "argument", {})
        ELSE IF gen_out = "raise" THEN Outcome(cur, log, "tool", {"gen"})
        ELSE IF gen_out = "short" \/ n = 0 THEN Outcome(cur, log, "generation_failed", {"gen"})
        ELSE IF ~check_within_resource_usage_after("case_gen", cur2)
             THEN Outcome(cur2, log, "exceeded_after", {"gen"})
        ELSE Outcome(cur2, Append(log, "case_gen"), "none", {"gen"})

\* case_eval (session.py 265-362)
case_eval_result(t, cur, log, lpub, same, n, args_ok, run_out) ==
    LET pre == Preprocess("case_eval", t, cur, lpub, same)
        cur2 == ResourceUsageAdd(cur, ResourceUsage(0, n, SumTimes(run_out.times), 0, 0))
    IN  IF pre # "ok" THEN Outcome(cur, log, pre, {})
        ELSE IF ~args_ok THEN Outcome(cur, log, "argument", {})
        ELSE IF run_out.raised THEN Outcome(cur, log, "tool", {"run"})
        ELSE IF ~check_within_resource_usage_after("case_eval", cur2)
             THEN Outcome(cur2, log, "exceeded_after", {"run"})
        ELSE Outcome(cur2, Append(log, "case_eval"), "none", {"run"})

case_gen ==
    /\ last_call = NoCall
    /\ \E n \in 0..MaxSeeds :
       \E seed_ok \in Choices(Preprocess("case_gen", now, current_resource_usage,
                                          last_public_eval_time, use_same_time_scale) = "ok",
                               BOOLEAN, TRUE) :
       \E gen_out \in Choices(seed_ok, GenOutcomes, "ok") :
        LET r == case_gen_result(now, current_resource_usage, action_log,
                                 last_public_eval_time, use_same_time_scale,
                                 n, seed_ok, gen_out)
        IN  Finish(r.cur, r.log, last_public_eval_time, now,
                   Call("case_gen", r.error,
                        IF r.error = "none" THEN "none" ELSE "case_gen", r.work, n))

case_eval ==
    /\ last_call = NoCall
    /\ \E n \in 0..MaxSeeds :
       \E args_ok \in Choices(Preprocess("case_eval", now, current_resource_usage,
                                          last_public_eval_time, use_same_time_scale) = "ok",
                               BOOLEAN, TRUE) :
       \E run_out \in Choices(args_ok, RunOutcomes(n), NoRun) :
        LET r == case_eval_result(now, current_resource_usage, action_log,
                                  last_public_eval_time, use_same_time_scale,
                                  n, args_ok, run_out)
        IN  Finish(r.cur, r.log, last_public_eval_time, now,
                   Call("case_eval", r.error,
                        IF r.error = "none" THEN "none" ELSE "case_eval", r.work, n))

\* case_gen_eval (session.py 364-418): the combined pre-check, both argument
\* checks, then case_gen and case_eval, each with its own checks; d is the
\* time the generation took
case_gen_eval ==
    /\ last_call = NoCall
    /\ \E n \in 0..MaxSeeds :
       \E seed_ok \in Choices(Preprocess("case_gen_eval", now, current_resource_usage,
                                          last_public_eval_time, use_same_time_scale) = "ok",
                               BOOLEAN, TRUE) :
       \E args_ok \in Choices(seed_ok, BOOLEAN, TRUE) :
       \E kwargs_empty \in Choices(seed_ok /\ args_ok, BOOLEAN, TRUE) :
       \E gen_out \in Choices(seed_ok /\ args_ok /\ kwargs_empty, GenOutcomes, "ok") :
       \E d \in Choices(gen_out = "ok", 0..1, 0) :
       \E run_out \in Choices(gen_out = "ok", RunOutcomes(n), NoRun) :
        LET pre == Preprocess("case_gen_eval", now, current_resource_usage,
                              last_public_eval_time, use_same_time_scale)
            g == case_gen_result(now, current_resource_usage, action_log,
                                 last_public_eval_time, use_same_time_scale,
                                 n, seed_ok, gen_out)
            e == case_eval_result(now + d, g.cur, g.log,
                                  last_public_eval_time, use_same_time_scale,
                                  n, args_ok, run_out)
        IN  IF pre # "ok" THEN Refuse(Call("case_gen_eval", pre, "case_gen_eval", {}, n))
            ELSE IF ~seed_ok \/ ~args_ok
                 THEN Refuse(Call("case_gen_eval", "argument", "case_gen_eval", {}, n))
            ELSE IF ~kwargs_empty
                 \* self.case_gen(seed, **gen_kwargs): case_gen has no such keyword
                 THEN Refuse(Call("case_gen_eval", "type_error", "case_gen_eval", {}, n))
            ELSE IF g.error # "none"
                 THEN Finish(g.cur, g.log, last_public_eval_time, now,
                             Call("case_gen_eval", g.error, "case_gen", g.work, n))
            ELSE IF e.error # "none"
                 THEN /\ now + d <= SessionDuration
                      /\ Finish(e.cur, e.log, last_public_eval_time, now + d,
                                Call("case_gen_eval", e.error, "case_eval", g.work \cup e.work,
                                     n))
            ELSE IF ~check_within_resource_usage_after("case_gen_eval", e.cur)
                 THEN /\ now + d <= SessionDuration
                      /\ Finish(e.cur, e.log, last_public_eval_time, now + d,
                                Call("case_gen_eval", "exceeded_after", "case_gen_eval",
                                     g.work \cup e.work, n))
            ELSE /\ now + d <= SessionDuration
                 /\ Finish(e.cur, e.log, last_public_eval_time, now + d,
                           Call("case_gen_eval", "none", "none", g.work \cup e.work, n))

\* local_visualization (session.py 420-471): no budget is guarded
local_visualization ==
    /\ last_call = NoCall
    /\ \E args_ok \in BOOLEAN :
       \E tool_ok \in Choices(args_ok, BOOLEAN, TRUE) :
        IF session_finished_raises(now, current_resource_usage,
                                   last_public_eval_time, use_same_time_scale)
        THEN Refuse(Call("local_visualization", "session_finished", "local_visualization", {}, 1))
        ELSE IF ~args_ok
        THEN Refuse(Call("local_visualization", "argument", "local_visualization", {}, 1))
        ELSE IF ~tool_ok
        THEN Refuse(Call("local_visualization", "tool", "local_visualization", {"vis"}, 1))
        ELSE Finish(current_resource_usage, Append(action_log, "local_visualization"),
                    last_public_eval_time, now,
                    Call("local_visualization", "none", "none", {"vis"}, 1))

\* a public_eval that takes the time of the evaluation before it checks its
\* arguments
public_eval_stamps_first ==
    /\ last_call = NoCall
    /\ \E args_ok \in BOOLEAN :
       \E run_ok \in Choices(args_ok, BOOLEAN, TRUE) :
        LET pre == Preprocess("public_eval", now, current_resource_usage,
                              last_public_eval_time, use_same_time_scale)
            cur2 == ResourceUsageAdd(current_resource_usage, ResourceUsage(0, 0, 0, 1, 0))
        IN  IF pre # "ok" THEN Refuse(Call("public_eval", pre, "public_eval", {}, 0))
            ELSE IF ~args_ok
                 THEN Finish(current_resource_usage, action_log, now, now,
                             Call("public_eval", "argument", "public_eval", {}, 0))
            ELSE IF ~run_ok
                 THEN Finish(current_resource_usage, action_log, now, now,
                             Call("public_eval", "tool", "public_eval", {"run"}, 0))
            ELSE IF ~check_within_resource_usage_after("public_eval", cur2)
                 THEN Finish(cur2, action_log, now, now,
                             Call("public_eval", "exceeded_after", "public_eval", {"run"}, 0))
            ELSE Finish(cur2, Append(action_log, "public_eval"), now, now,
                        Call("public_eval", "none", "none", {"run"}, 0))

\* public_eval (session.py 473-552)
public_eval ==
    /\ last_call = NoCall
    /\ \E args_ok \in BOOLEAN :
       \E run_ok \in Choices(args_ok, BOOLEAN, TRUE) :
        LET pre == Preprocess("public_eval", now, current_resource_usage,
                              last_public_eval_time, use_same_time_scale)
            cur2 == ResourceUsageAdd(current_resource_usage, ResourceUsage(0, 0, 0, 1, 0))
        IN  IF pre # "ok" THEN Refuse(Call("public_eval", pre, "public_eval", {}, 0))
            ELSE IF ~args_ok
                 THEN Refuse(Call("public_eval", "argument", "public_eval", {}, 0))
            ELSE IF ~run_ok
                 THEN Finish(current_resource_usage, action_log, now, now,
                             Call("public_eval", "tool", "public_eval", {"run"}, 0))
            ELSE IF ~check_within_resource_usage_after("public_eval", cur2)
                 THEN Finish(cur2, action_log, now, now,
                             Call("public_eval", "exceeded_after", "public_eval", {"run"}, 0))
            ELSE Finish(cur2, Append(action_log, "public_eval"), now, now,
                        Call("public_eval", "none", "none", {"run"}, 0))

\* private_eval (session.py 554-656)
private_eval ==
    /\ last_call = NoCall
    /\ \E args_ok \in BOOLEAN :
       \E run_ok \in Choices(args_ok, BOOLEAN, TRUE) :
        LET pre == Preprocess("private_eval", now, current_resource_usage,
                              last_public_eval_time, use_same_time_scale)
            cur2 == ResourceUsageAdd(current_resource_usage, ResourceUsage(0, 0, 0, 0, 1))
        IN  IF pre # "ok" THEN Refuse(Call("private_eval", pre, "private_eval", {}, 0))
            ELSE IF ~args_ok
                 THEN Refuse(Call("private_eval", "argument", "private_eval", {}, 0))
            ELSE IF ~run_ok
                 THEN Finish(current_resource_usage, action_log, last_public_eval_time, now,
                             Call("private_eval", "tool", "private_eval", {"run"}, 0))
            ELSE IF ~check_within_resource_usage_after("private_eval", cur2)
                 THEN Finish(cur2, action_log, last_public_eval_time, now,
                             Call("private_eval", "exceeded_after", "private_eval", {"run"}, 0))
            ELSE Finish(cur2, Append(action_log, "private_eval"), last_public_eval_time, now,
                        Call("private_eval", "none", "none", {"run"}, 0))

Next ==
    \/ Returned
    \/ Tick
    \/ code_run
    \/ case_gen
    \/ case_eval
    \/ case_gen_eval
    \/ local_visualization
    \/ public_eval
    \/ private_eval

\* ================================================================ run_cases
\* case_runner.py.  Inputs are numbered 1..n; a CaseResult keeps its verdict,
\* its input_str (the input's number, 0 for None) and the number of the
\* input whose pipeline produced it (0 when no pipeline did).
MaxInputs == 3
MaxWorkers == 2

Backends == {"docker", "local", "modal"}

ProblemTypes == {"BATCH", "REACTIVE"}

\* what the per-case pipeline of one input does when it is given a backend:
\* it returns a CaseResult with this verdict, or it raises.  "undecodable" is
\* a program that fails after writing bytes that are not UTF-8 to its
\* standard error; "raise" is a failure of the backend, of a profile or of
\* the visualiser.
PipelineOutcomes == {"ACCEPTED", "RUNTIME_ERROR", "undecodable", "raise"}

\* container.logs(stdout=False, stderr=True).decode("utf-8") in
\* run_batch_run_container and run_reactive_judge_container: strict, so the
\* program's bytes raise UnicodeDecodeError before the exit code is read.
\* The Modal pipeline gets its standard error as a str from exec_command.
decode_utf8(backend) == IF backend = "modal" THEN "RUNTIME_ERROR" ELSE "raise"

CompileOutcomes == {"ok", "fail", "raise"}

\* ale_bench.constants.REJECTED_ABSOLUTE_SCORE, the score of every result
\* that is not ACCEPTED
REJECTED_ABSOLUTE_SCORE == -1

\* the score the judge gives the output for input i
JudgeScore(i) == i

\* output_str is the program's output when the pipeline got to read it and
\* error_str its standard error when the program was run, both only with
\* return_details (input_str is then not None)
CaseResult(judge_result, input_str, case) ==
    [judge_result |-> judge_result, input_str |-> input_str, case |-> case,
     absolute_score |-> IF judge_result = "ACCEPTED" THEN JudgeScore(case)
                        ELSE REJECTED_ABSOLUTE_SCORE,
     output_str |-> IF judge_result = "ACCEPTED" THEN input_str ELSE 0,
     error_str |-> IF judge_result \in {"ACCEPTED", "RUNTIME_ERROR"} THEN input_str ELSE 0]

Raised == CaseResult("raise", 0, 0)

\* a pipeline that keeps the details whatever return_details says
Detail_always(args, i) == i

\* "input_str if return_details else None"
Detail(args, i) == IF args.return_details THEN i ELSE 0

\* case_iter_func / _case_iter_func_modal: the pipeline of input i.  Every
\* branch starts with a call on the backend, so without a backend it raises.
case_iter_func(args, i, backend_given) ==
    LET outcome == IF args.outcome[i] = "undecodable"
                   THEN decode_utf8(args.backend) ELSE args.outcome[i]
    IN  IF ~backend_given THEN Raised
        ELSE IF outcome = "raise" THEN Raised
        ELSE CaseResult(outcome, Detail(args, i), i)

\* the result both compile steps return on a compilation failure
compile_error_result == CaseResult("COMPILATION_ERROR", 0, 0)

\* an except block that reads input_str, the variable the submit loop left
\* at the last input, in place of inputs[case_idx]
internal_error_result_last_input(args, i) ==
    CaseResult("INTERNAL_ERROR", Detail(args, args.n), 0)

\* the placeholder and the result that replaces a future's exception
internal_error_result(args, i) == CaseResult("INTERNAL_ERROR", Detail(args, i), 0)

\* the files a pipeline writes or reads back: a path is its prefix (the case
\* index, 0 for the fixed paths INPUT_FILE, OUTPUT_FILE, PROFILES_FILE and
\* the fixed visualisation file) and its file name
CaseFiles(prefix, args) ==
    {<<prefix, "input">>, <<prefix, "output">>, <<prefix, "profiles">>}
        \cup IF args.skip_local_visualization THEN {}
             ELSE {<<prefix, "local_visualization">>}

\* a prefix that leaves the case index out
HostPaths_no_case_index(args, i) == CaseFiles(0, args)

\* setup_paths_batch_run, setup_paths_reactive_judge, setup_paths_vis with
\* the prefix f"{problem_id}_{case_idx:06d}_" inside the shared temp_dir
HostPaths(args, i) == CaseFiles(i, args)

\* _case_iter_func_modal: every case uses the fixed paths of the sandbox
ModalPaths(args, i) == CaseFiles(0, args)

\* _run_all_cases_single_exec: /tmp/cases/{i:06d}/ and, while the case runs,
\* the fixed paths its files are copied to and from
SingleExecPaths(args, i) == CaseFiles(i, args) \cup CaseFiles(0, args)

\* the mutable paths the pipeline of input i uses
MutablePaths(args, i) ==
    IF args.backend # "modal" THEN HostPaths(args, i)
    ELSE IF args.problem_type = "BATCH" /\ args.n > 1 /\ args.skip_local_visualization
    THEN SingleExecPaths(args, i)
    ELSE ModalPaths(args, i)

\* a pool that starts every queued call at once
PoolHasFreeWorker_unbounded(running, num_workers) == TRUE

\* ThreadPoolExecutor(max_workers=num_workers): a queued call starts only
\* on an idle worker thread
PoolHasFreeWorker(running, num_workers) == Cardinality(running) < num_workers

Running == {i \in DOMAIN r_futures : r_futures[i] = "running"}

Pending == {i \in DOMAIN r_futures : r_futures[i] = "pending"}

RunInit ==
    /\ \E n \in 0..MaxInputs :
        r_args \in [n : {n}, backend : Backends, num_workers : 1..MaxWorkers,
                    compile : CompileOutcomes, problem_type : ProblemTypes,
                    skip_local_visualization : BOOLEAN, return_details : BOOLEAN,
                    outcome : [1..n -> PipelineOutcomes]]
    /\ r_pc = "start"
    /\ r_results = <<>>
    /\ r_futures = <<>>
    /\ r_collected = {}
    /\ r_raised = FALSE

SessionIdle ==
    /\ now = 0
    /\ current_resource_usage = ResourceUsage(0, 0, 0, 0, 0)
    /\ action_log = <<>>
    /\ last_public_eval_time = EpochTime
    /\ use_same_time_scale = FALSE
    /\ last_call = NoCall

InitRun ==
    /\ SessionIdle /\ RunInit /\ ServerIdle /\ NothingObserved /\ NothingApplied
    /\ NoSandbox
    /\ NoLoop

\* what the compile step does: run_compile_container starts with
\* backend.run_container, which LocalBackend does not implement (it raises
\* NotImplementedError); args.compile is what the step does on a backend
\* that runs it
compile_outcome(args) == IF args.backend = "local" THEN "raise" ELSE args.compile

\* a caller that takes every compile result for a success
compile_failed_never(args) == FALSE

\* "compile_result is not None": the compile step returned a CaseResult
compile_failed(args) == compile_outcome(args) = "fail"

\* run_cases dispatches on the backend; both paths compile first
Compile ==
    /\ r_pc = "start"
    /\ IF compile_outcome(r_args) = "raise"
       THEN /\ r_raised' = TRUE
            /\ r_pc' = "done"
            /\ UNCHANGED <<r_results, r_futures>>
       ELSE IF compile_failed(r_args)
       THEN /\ r_results' = [i \in 1..r_args.n |-> compile_error_result]
            /\ r_pc' = "done"
            /\ UNCHANGED <<r_raised, r_futures>>
       ELSE IF r_args.backend = "modal"
       THEN /\ r_pc' = IF /\ r_args.problem_type = "BATCH"
                          /\ r_args.n > 1
                          /\ r_args.skip_local_visualization
                       THEN "modal_batch" ELSE "modal_seq"
            /\ UNCHANGED <<r_results, r_raised, r_futures>>
       ELSE IF r_args.n = 1 \/ r_args.num_workers = 1
       THEN /\ r_pc' = "seq"
            /\ UNCHANGED <<r_results, r_raised, r_futures>>
       ELSE /\ r_pc' = "par"
            /\ r_results' = [i \in 1..r_args.n |-> internal_error_result(r_args, i)]
            /\ r_futures' = [i \in 1..r_args.n |-> "pending"]
            /\ UNCHANGED r_raised
    /\ UNCHANGED <<r_args, r_collected, svars, mvars, ovars, fvars, bvars, lvars>>

\* _run_cases_docker, the sequential loop: one case_iter_func call
SeqStep ==
    /\ r_pc = "seq"
    /\ Len(r_results) < r_args.n
    /\ LET res == case_iter_func(r_args, Len(r_results) + 1, TRUE)
       IN  IF res = Raised
           THEN r_raised' = TRUE /\ r_pc' = "done" /\ UNCHANGED r_results
           ELSE r_results' = Append(r_results, res) /\ UNCHANGED <<r_raised, r_pc>>
    /\ UNCHANGED <<r_args, r_futures, r_collected, svars, mvars, ovars, fvars, bvars, lvars>>

\* _run_cases_modal, the per-case fallback loop
ModalSeqStep ==
    /\ r_pc = "modal_seq"
    /\ Len(r_results) < r_args.n
    /\ LET res == case_iter_func(r_args, Len(r_results) + 1, TRUE)
       IN  IF res = Raised
           THEN r_raised' = TRUE /\ r_pc' = "done" /\ UNCHANGED r_results
           ELSE r_results' = Append(r_results, res) /\ UNCHANGED <<r_raised, r_pc>>
    /\ UNCHANGED <<r_args, r_futures, r_collected, svars, mvars, ovars, fvars, bvars, lvars>>

\* the end of either loop
SeqReturn ==
    /\ r_pc \in {"seq", "modal_seq"}
    /\ Len(r_results) = r_args.n
    /\ r_pc' = "done"
    /\ UNCHANGED <<r_args, r_results, r_futures, r_collected, r_raised, svars, mvars, ovars, fvars, bvars, lvars>>

\* _run_cases_modal_batch_optimized: all cases in one exec; a failure of the
\* exec or of reading its results raises out of the call
ModalBatch ==
    /\ r_pc = "modal_batch"
    /\ IF \E i \in 1..r_args.n : r_args.outcome[i] = "raise"
       THEN r_raised' = TRUE /\ UNCHANGED r_results
       ELSE /\ r_results' = [i \in 1..r_args.n |-> case_iter_func(r_args, i, TRUE)]
            /\ UNCHANGED r_raised
    /\ r_pc' = "done"
    /\ UNCHANGED <<r_args, r_futures, r_collected, svars, mvars, ovars, fvars, bvars, lvars>>

\* a worker thread of the pool takes the oldest queued call
WorkerStart(i) ==
    /\ r_pc = "par"
    /\ i \in Pending
    /\ \A j \in Pending : i <= j
    /\ PoolHasFreeWorker(Running, r_args.num_workers)
    /\ r_futures' = [r_futures EXCEPT ![i] = "running"]
    /\ UNCHANGED <<r_args, r_pc, r_results, r_collected, r_raised, svars, mvars, ovars, fvars, bvars, lvars>>

\* the call ends: executor.submit passes no backend, so case_iter_func runs
\* with backend=None
WorkerFinish(i) ==
    /\ r_pc = "par"
    /\ i \in Running
    /\ r_futures' = [r_futures EXCEPT ![i] =
                        IF case_iter_func(r_args, i, FALSE) = Raised
                        THEN "raised" ELSE "returned"]
    /\ UNCHANGED <<r_args, r_pc, r_results, r_collected, r_raised, svars, mvars, ovars, fvars, bvars, lvars>>

\* one iteration of the as_completed loop
Collect(i) ==
    /\ r_pc = "par"
    /\ i \in DOMAIN r_futures
    /\ i \notin r_collected
    /\ r_futures[i] \in {"raised", "returned"}
    /\ r_results' = [r_results EXCEPT ![i] =
                        IF r_futures[i] = "raised"
                        THEN internal_error_result(r_args, i)
                        ELSE case_iter_func(r_args, i, FALSE)]
    /\ r_collected' = r_collected \cup {i}
    /\ UNCHANGED <<r_args, r_pc, r_futures, r_raised, svars, mvars, ovars, fvars, bvars, lvars>>

ParReturn ==
    /\ r_pc = "par"
    /\ r_collected = DOMAIN r_futures
    /\ r_pc' = "done"
    /\ UNCHANGED <<r_args, r_results, r_futures, r_collected, r_raised, svars, mvars, ovars, fvars, bvars, lvars>>

\* the inputs whose pipeline has been started
Started ==
    IF r_args.n = 0 \/ r_pc \in {"idle", "start"} \/ compile_outcome(r_args) # "ok" THEN {}
    ELSE IF r_futures # <<>>
    THEN {i \in DOMAIN r_futures : r_futures[i] # "pending"}
    ELSE IF r_pc = "modal_batch" THEN {}
    ELSE IF r_results = <<>> /\ r_raised /\ r_args.backend = "modal"
            /\ r_args.problem_type = "BATCH" /\ r_args.n > 1
            /\ r_args.skip_local_visualization
    THEN 1..r_args.n
    ELSE 1..(Len(r_results) + IF r_raised THEN 1 ELSE 0)

\* what run_cases gives back: the list, or the exception it raises
Ran(raised, results) == [raised |-> raised, results |-> results]

\* _run_cases_modal as a function of its arguments: a failure of the compile
\* step or of any case's pipeline raises out of the call
run_cases_modal(args) ==
    IF compile_outcome(args) = "raise" THEN Ran(TRUE, <<>>)
    ELSE IF compile_failed(args)
    THEN Ran(FALSE, [i \in 1..args.n |-> compile_error_result])
    ELSE IF \E i \in 1..args.n : case_iter_func(args, i, TRUE) = Raised
    THEN Ran(TRUE, <<>>)
    ELSE Ran(FALSE, [i \in 1..args.n |-> case_iter_func(args, i, TRUE)])

NextRun ==
    \/ Compile
    \/ SeqStep
    \/ ModalSeqStep
    \/ SeqReturn
    \/ ModalBatch
    \/ \E i \in 1..MaxInputs : WorkerStart(i)
    \/ \E i \in 1..MaxInputs : WorkerFinish(i)
    \/ \E i \in 1..MaxInputs : Collect(i)
    \/ ParReturn

SpecRun == InitRun /\ [][NextRun]_vars

\* =============================================================== MCP server
\* mcp/server.py.  Every tool is a coroutine of one event loop, and a tool
\* that uses a Session calls its method directly, with no await between the
\* lookup of the session and the return of the method.
MAX_SESSIONS == 4

\* the calls the model lets overlap on one Session when nothing prevents it
MaxInFlight == 2

\* tools dispatched to worker threads: a tool starts whatever else runs
EventLoopFree_threads(inflight) == TRUE

\* the event loop runs a tool only when no other tool is between its start
\* and its return
EventLoopFree(inflight) == \A p \in ProblemIds : inflight[p] = <<>>

RemoveAt(seq, k) == [j \in 1..(Len(seq) - 1) |-> IF j < k THEN seq[j] ELSE seq[j + 1]]

\* a start_session without the test of len(current_sessions)
start_session_unbounded(p) ==
    /\ EventLoopFree(m_inflight)
    /\ p \notin m_sessions
    /\ m_sessions' = m_sessions \cup {p}
    /\ UNCHANGED <<m_inflight, svars, rvars, ovars, fvars, bvars, lvars>>

start_session(p) ==
    /\ EventLoopFree(m_inflight)
    /\ p \notin m_sessions
    /\ Cardinality(m_sessions) < MAX_SESSIONS
    /\ m_sessions' = m_sessions \cup {p}
    /\ UNCHANGED <<m_inflight, svars, rvars, ovars, fvars, bvars, lvars>>

close_session(p) ==
    /\ EventLoopFree(m_inflight)
    /\ p \in m_sessions
    /\ m_sessions' = m_sessions \ {p}
    /\ UNCHANGED <<m_inflight, svars, rvars, ovars, fvars, bvars, lvars>>

\* a tool looks the session up and enters its method: from here on the call
\* is between its budget pre-check and its budget post-increment
ToolEnter(p, fn) ==
    /\ EventLoopFree(m_inflight)
    /\ p \in m_sessions
    /\ Len(m_inflight[p]) < MaxInFlight
    /\ m_inflight' = [m_inflight EXCEPT ![p] = Append(@, fn)]
    /\ UNCHANGED <<m_sessions, svars, rvars, ovars, fvars, bvars, lvars>>

\* the method returns or raises, and with it the tool
ToolReturn(p) ==
    /\ \E k \in 1..Len(m_inflight[p]) :
          m_inflight' = [m_inflight EXCEPT ![p] = RemoveAt(@, k)]
    /\ UNCHANGED <<m_sessions, svars, rvars, ovars, fvars, bvars, lvars>>

NextServer ==
    \/ \E p \in ProblemIds : start_session(p)
    \/ \E p \in ProblemIds : close_session(p)
    \/ \E p \in ProblemIds : \E fn \in Actions : ToolEnter(p, fn)
    \/ \E p \in ProblemIds : ToolReturn(p)

SpecServer == Init /\ [][NextServer]_vars

\* ======================================================= what a caller sees
\* session.py 658-689 and 697-940.  The seeds the Session was built with
\* (tests/test_session.py 82-83); what an operation hands to its caller is
\* kept as the channel it came through, its name, the seed values in it and
\* its length.
public_seeds == <<0, 1, 2>>

private_seeds == <<3, 4, 5>>

Range(seq) == {seq[i] : i \in DOMAIN seq}

Out(channel, name, seeds, n) == [channel |-> channel, name |-> name, seeds |-> seeds, n |-> n]

Properties == {"public_seeds", "num_public_cases", "private_seeds", "num_private_cases",
               "action_log"}

\* a private_seeds property that returns the list as public_seeds does
PropertyValue_private_seeds_returned(p) ==
    CASE p = "public_seeds" -> Out("property", p, Range(public_seeds), Len(public_seeds))
      [] p = "num_public_cases" -> Out("property", p, {}, Len(public_seeds))
      [] p = "private_seeds" -> Out("property", p, Range(private_seeds), Len(private_seeds))
      [] p = "num_private_cases" -> Out("property", p, {}, Len(private_seeds))
      [] p = "action_log" -> Out("property", p, {}, Len(action_log))

\* the properties: private_seeds raises AleBenchError, the others return the
\* attribute or its length
PropertyValue(p) ==
    CASE p = "public_seeds" -> Out("property", p, Range(public_seeds), Len(public_seeds))
      [] p = "num_public_cases" -> Out("property", p, {}, Len(public_seeds))
      [] p = "private_seeds" -> Out("error", p, {}, 0)
      [] p = "num_private_cases" -> Out("property", p, {}, Len(private_seeds))
      [] p = "action_log" -> Out("property", p, {}, Len(action_log))

\* save: the JSON object written to the file the caller names
SavedFile ==
    {Out("save", "public_seeds", Range(public_seeds), Len(public_seeds)),
     Out("save", "private_seeds", Range(private_seeds), Len(private_seeds)),
     Out("save", "action_log", {}, Len(action_log))}

\* what a successful action returns: generated inputs and case results carry
\* no seed; private_eval returns its case results with input_str,
\* output_str, error_str and message removed
ActionResult(fn) == Out("result", fn, {}, 0)

ReadProperty(p) ==
    /\ observed' = observed \cup {PropertyValue(p)}
    /\ UNCHANGED <<svars, rvars, mvars, fvars, bvars, lvars>>

save ==
    /\ observed' = observed \cup SavedFile
    /\ UNCHANGED <<svars, rvars, mvars, fvars, bvars, lvars>>

NextSeeds ==
    \/ \E p \in Properties : ReadProperty(p)
    \/ save
    \/ public_eval
    \/ private_eval
    \/ Tick
    \/ Returned

SpecSeeds == Init /\ [][NextSeeds]_vars

\* ============================================================ the functions
\* The functions of session.py, case_runner.py and input_generation.py that
\* compute a value from their arguments: each action applies one of them to
\* arguments drawn from a small set and keeps the arguments and the value.
None == "None"

Apply(op, in, out) ==
    /\ f_op = "none"
    /\ f_op' = op
    /\ f_in' = in
    /\ f_out' = out
    /\ UNCHANGED <<svars, rvars, mvars, ovars, bvars, lvars>>

\* the private inputs of the model's Session
MaxPrivateCases == 2

\* a CaseResult as run_cases returns it, all its fields kept
FullCaseResult(detail, judge_result, message, absolute_score, execution_time) ==
    [local_visualization |-> detail, judge_result |-> judge_result,
     input_str |-> detail, absolute_score |-> absolute_score,
     output_str |-> detail, error_str |-> detail, message |-> message,
     execution_time |-> execution_time, relative_score |-> None,
     memory_usage |-> execution_time + 1]

\* the fields run_cases can have filled in: details, the verdict with its
\* message and absolute score, execution time
PrivateCaseFields ==
    {None, "text"}
        \X {<<"ACCEPTED", "", 1>>, <<"WRONG_ANSWER", "Wrong answer.", REJECTED_ABSOLUTE_SCORE>>}
        \X (0..MaxCaseTime)

\* a post-processing that copies the case result and adds the relative score
processed_relative_case_copied(case_result, relative_score) ==
    [case_result EXCEPT !.relative_score = relative_score]

\* private_eval's processed_relative_cases (session.py 631-645): a new
\* CaseResult per case; message is a str and is emptied
processed_relative_case(case_result, relative_score) ==
    [local_visualization |-> None, judge_result |-> case_result.judge_result,
     input_str |-> None, absolute_score |-> case_result.absolute_score,
     output_str |-> None, error_str |-> None, message |-> "",
     execution_time |-> case_result.execution_time, relative_score |-> relative_score,
     memory_usage |-> case_result.memory_usage]

\* zip(relative_scores, private_result.case_results)
ApplyPrivateEvalResult ==
    \E n \in 1..MaxPrivateCases :
    \E fields \in [1..n -> PrivateCaseFields] :
    \E relative_scores \in [1..n -> 0..1] :
        LET cases == [i \in 1..n |-> FullCaseResult(fields[i][1], fields[i][2][1], fields[i][2][2],
                                                     fields[i][2][3], fields[i][3])]
        IN  Apply("private_eval_result",
                  [relative_scores |-> relative_scores, case_results |-> cases],
                  [i \in 1..n |-> processed_relative_case(cases[i], relative_scores[i])])

\* ---------------------------------------------------------- times and limits
\* Times are in tenths of a second, memory_limit in bytes, the profile's
\* max_resident_set_size_kbytes in kbytes.
MaxTimeLimit == 1
MaxKbytes == 2

\* the 0.1 s of "time_limit + 0.1"
TimeSlack == 1

Min(a, b) == IF a < b THEN a ELSE b

Max(a, b) == IF a > b THEN a ELSE b

\* what a timed step returns: a CaseResult (its verdict, time and memory) or,
\* with judge_result "none", the pair (execution_time, memory_usage)
Timed(judge_result, execution_time, memory_usage) ==
    [judge_result |-> judge_result, execution_time |-> execution_time,
     memory_usage |-> memory_usage]

\* the profile file: how it starts ("empty" for an empty file), whether its
\* body is JSON of the Profiles format, and the fields of the record
Profile(content, body, exit_status, elapsed, cpu, kbytes) ==
    [content |-> content, body |-> body, exit_status |-> exit_status,
     elapsed |-> elapsed, cpu |-> cpu, kbytes |-> kbytes]

\* a parser that tests the limits before the exit status
parse_profiles_limits_first(time_limit, memory_limit, profile, execution_time_host) ==
    LET is_tle == profile.content = "signal9"
        execution_time == Max(profile.elapsed, profile.cpu)
        memory_usage == profile.kbytes * 1024
    IN  IF profile.content = "empty"
        THEN IF execution_time_host > time_limit
             THEN Timed("TIME_LIMIT_EXCEEDED",
                        Min(execution_time_host, time_limit + TimeSlack), 0)
             ELSE Timed("RUNTIME_ERROR", execution_time_host, 0)
        ELSE IF profile.body = "not_json"
        THEN Timed("WRONG_ANSWER", Min(execution_time_host, time_limit + TimeSlack), 0)
        ELSE IF profile.body = "bad_format"
        THEN Timed("INTERNAL_ERROR", Min(execution_time_host, time_limit + TimeSlack), 0)
        ELSE IF execution_time > time_limit \/ is_tle
        THEN Timed("TIME_LIMIT_EXCEEDED", Min(execution_time, time_limit + TimeSlack),
                   memory_usage)
        ELSE IF memory_usage > memory_limit
        THEN Timed("MEMORY_LIMIT_EXCEEDED", execution_time, memory_usage)
        ELSE IF profile.exit_status # 0
        THEN Timed("RUNTIME_ERROR", Min(execution_time, time_limit + TimeSlack),
                   memory_usage)
        ELSE Timed("none", execution_time, memory_usage)

\* parse_profiles (case_runner.py 652-755)
parse_profiles(time_limit, memory_limit, profile, execution_time_host) ==
    LET is_tle == profile.content = "signal9"
        execution_time == Max(profile.elapsed, profile.cpu)
        memory_usage == profile.kbytes * 1024
    IN  IF profile.content = "empty"
        THEN IF execution_time_host > time_limit
             THEN Timed("TIME_LIMIT_EXCEEDED",
                        Min(execution_time_host, time_limit + TimeSlack), 0)
             ELSE Timed("RUNTIME_ERROR", execution_time_host, 0)
        ELSE IF profile.body = "not_json"
        THEN Timed("WRONG_ANSWER", Min(execution_time_host, time_limit + TimeSlack), 0)
        ELSE IF profile.body = "bad_format"
        THEN Timed("INTERNAL_ERROR", Min(execution_time_host, time_limit + TimeSlack), 0)
        ELSE IF profile.exit_status # 0
        THEN Timed("RUNTIME_ERROR", Min(execution_time, time_limit + TimeSlack),
                   memory_usage)
        ELSE IF execution_time > time_limit \/ is_tle
        THEN Timed("TIME_LIMIT_EXCEEDED", Min(execution_time, time_limit + TimeSlack),
                   memory_usage)
        ELSE IF memory_usage > memory_limit
        THEN Timed("MEMORY_LIMIT_EXCEEDED", execution_time, memory_usage)
        ELSE Timed("none", execution_time, memory_usage)

\* run_batch_run_container (407-462): the container's exit code and the time
\* the host measured around it
run_batch_run_container(time_limit, exit_code, execution_time_host) ==
    IF exit_code # 0
    THEN IF execution_time_host > time_limit
         THEN Timed("TIME_LIMIT_EXCEEDED", Min(execution_time_host, time_limit + TimeSlack), 0)
         ELSE Timed("RUNTIME_ERROR", execution_time_host, 0)
    ELSE Timed("none", execution_time_host, 0)

\* run_batch_judge_container (465-549): a rejected output is a WRONG_ANSWER
\* result that carries the host's time of the run
run_batch_judge_container(judge_accepts, execution_time_host) ==
    IF judge_accepts THEN Timed("none", 0, 0)
    ELSE Timed("WRONG_ANSWER", execution_time_host, 0)

\* case_iter_func, BATCH branch (1091-1116, 1177-1187): run, profile, judge
batch_case(time_limit, memory_limit, exit_code, execution_time_host, profile, judge_accepts) ==
    LET run_result == run_batch_run_container(time_limit, exit_code, execution_time_host)
        profiles_result == parse_profiles(time_limit, memory_limit, profile,
                                          execution_time_host)
        batch_judge_result == run_batch_judge_container(judge_accepts, execution_time_host)
    IN  IF run_result.judge_result # "none" THEN run_result
        ELSE IF profiles_result.judge_result # "none" THEN profiles_result
        ELSE IF batch_judge_result.judge_result # "none" THEN batch_judge_result
        ELSE Timed("ACCEPTED", profiles_result.execution_time, profiles_result.memory_usage)

Profiles ==
    {"empty", "signal9", "nonzero_status", "plain"} \X {"not_json", "bad_format", "ok"}
        \X (0..1) \X (0..(MaxTimeLimit + 2)) \X {0, MaxTimeLimit + 2} \X (0..MaxKbytes)

ApplyParseProfiles ==
    \E time_limit \in 1..MaxTimeLimit :
    \E execution_time_host \in 0..(MaxTimeLimit + 2) :
    \E pr \in Profiles :
        LET profile == Profile(pr[1], pr[2], pr[3], pr[4], pr[5], pr[6])
        IN  Apply("parse_profiles",
                  [time_limit |-> time_limit, memory_limit |-> 1024,
                   profile |-> profile, execution_time_host |-> execution_time_host],
                  parse_profiles(time_limit, 1024, profile, execution_time_host))

ApplyBatchCase ==
    \E time_limit \in 1..MaxTimeLimit :
    \E execution_time_host \in 0..(MaxTimeLimit + 2) :
    \E exit_code \in 0..1 :
    \E judge_accepts \in BOOLEAN :
    \E pr \in {q \in Profiles : q[1] = "plain" /\ q[5] = 0} :
        LET profile == Profile(pr[1], pr[2], pr[3], pr[4], pr[5], pr[6])
        IN  Apply("batch_case",
                  [time_limit |-> time_limit, memory_limit |-> 1024,
                   profile |-> profile, execution_time_host |-> execution_time_host,
                   exit_code |-> exit_code, judge_accepts |-> judge_accepts],
                  batch_case(time_limit, 1024, exit_code, execution_time_host, profile,
                             judge_accepts))

\* ------------------------------------------------------- the judge's verdict
\* The judge's standard error is a sequence of lines; "" is a line of
\* nothing but white space.
MaxStderrLines == 2

StderrLines == {"", "note", "wrong answer: bad", "Score = 5", "Score = 5 points"}

\* "wrong answer: " in line
HasWrongAnswer(line) == line = "wrong answer: bad"

\* re.match(r"Score = (\d+)", line): a match at the start of the line
ScoreMatch(line) == line \in {"Score = 5", "Score = 5 points"}

\* int(score_match.group(1))
ScoreOf(line) == 5

RECURSIVE DropTrailingBlank(_)
DropTrailingBlank(lines) ==
    IF lines # <<>> /\ lines[Len(lines)] = ""
    THEN DropTrailingBlank(SubSeq(lines, 1, Len(lines) - 1))
    ELSE lines

RECURSIVE DropLeadingBlank(_)
DropLeadingBlank(lines) ==
    IF lines # <<>> /\ lines[1] = "" THEN DropLeadingBlank(Tail(lines)) ELSE lines

\* str.strip() on the whole standard error
Strip(lines) == DropLeadingBlank(DropTrailingBlank(lines))

\* what the judge step returns: a WRONG_ANSWER result or, with judge_result
\* "none", the score
Judged(judge_result, absolute_score) ==
    [judge_result |-> judge_result, absolute_score |-> absolute_score]

\* _parse_judge_stderr (758-796), and the same tests at the end of
\* run_batch_judge_container (509-549)
parse_judge_stderr(stderr) ==
    IF Strip(stderr) = <<>> THEN Judged("WRONG_ANSWER", REJECTED_ABSOLUTE_SCORE)
    ELSE IF \E i \in DOMAIN stderr : HasWrongAnswer(stderr[i])
    THEN Judged("WRONG_ANSWER", REJECTED_ABSOLUTE_SCORE)
    ELSE IF ~ScoreMatch(stderr[Len(stderr)])
    THEN Judged("WRONG_ANSWER", REJECTED_ABSOLUTE_SCORE)
    ELSE Judged("none", ScoreOf(stderr[Len(stderr)]))

\* $(echo "$JUDGE_STDERR" | tail -1) in the script of
\* _run_all_cases_single_exec (1239-1251): the command substitution drops
\* the trailing newlines and tail keeps the last line
TailOne(stderr) ==
    LET kept == DropTrailingBlank(stderr)
    IN  IF kept = <<>> THEN <<>> ELSE <<kept[Len(kept)]>>

\* the judge step of a BATCH case on each path: run_batch_judge_container
\* (Docker), _case_iter_func_modal (924-943) and
\* _run_cases_modal_batch_optimized (1417-1437)
batch_judge(path, judge_exit, stderr) ==
    LET judge_stderr == IF path = "modal_batch" THEN TailOne(stderr) ELSE Strip(stderr)
    IN  IF judge_exit # 0 THEN Judged("WRONG_ANSWER", REJECTED_ABSOLUTE_SCORE)
        ELSE LET judge_result == parse_judge_stderr(judge_stderr)
             IN  IF judge_result.judge_result # "none" THEN judge_result
                 ELSE Judged("ACCEPTED", judge_result.absolute_score)

ApplyBatchJudge ==
    \E path \in {"docker", "modal", "modal_batch"} :
    \E judge_exit \in 0..1 :
    \E n \in 0..MaxStderrLines :
    \E stderr \in [1..n -> StderrLines] :
        Apply("batch_judge", [stderr |-> stderr, path |-> path, judge_exit |-> judge_exit],
              batch_judge(path, judge_exit, stderr))

\* ------------------------------------------------------- generate_inputs
MaxGenSeeds == 2

\* files a previous generation can have left in IN_DIR of a sandbox
MaxStaleFiles == 2

GenSeeds == {0, 1}

\* the input the generator makes of a seed
GenInput(seed) == <<"input", seed>>

\* IN_DIR as the sorted listing sees it: the file named idx (zero-padded)
\* is at place idx + 1.  The generator writes one file for each line of
\* the seeds file, in order.
gen(in_dir, seeds) ==
    [i \in 1..Max(Len(seeds), Len(in_dir)) |->
        IF i <= Len(seeds) THEN GenInput(seeds[i]) ELSE in_dir[i]]

\* rm -rf IN_DIR and mkdir
clear_in_dir_kept(in_dir) == in_dir

clear_in_dir(in_dir) == <<>>

\* what generate_inputs gives back: the list, or the error it raises
Generated(raised, generated_cases) ==
    [raised |-> raised, generated_cases |-> generated_cases]

\* _generate_inputs_modal (92-129), for the Modal and the local backend
generate_inputs_modal(seeds, in_dir, exit_code) ==
    IF exit_code # 0 THEN Generated(TRUE, <<>>)
    ELSE Generated(FALSE, gen(clear_in_dir(in_dir), seeds))

\* _generate_inputs_docker (132-152): IN_DIR is made in a new temporary
\* directory
generate_inputs_docker(seeds, exit_code) ==
    IF exit_code # 0 THEN Generated(TRUE, <<>>)
    ELSE Generated(FALSE, gen(<<>>, seeds))

generate_inputs(seeds, in_dir, exit_code, backend) ==
    IF backend \in {"modal", "local"}
    THEN generate_inputs_modal(seeds, in_dir, exit_code)
    ELSE generate_inputs_docker(seeds, exit_code)

ApplyGenerateInputs ==
    \E backend \in {"docker", "modal", "local"} :
    \E exit_code \in 0..1 :
    \E n \in 0..MaxGenSeeds :
    \E seeds \in [1..n -> GenSeeds] :
    \E stale \in 0..MaxStaleFiles :
        LET in_dir == IF backend = "docker" THEN <<>> ELSE [i \in 1..stale |-> "stale"]
        IN  Apply("generate_inputs",
                  [backend |-> backend, seeds |-> seeds, exit_code |-> exit_code,
                   in_dir |-> in_dir],
                  generate_inputs(seeds, in_dir, exit_code, backend))

\* ------------------------------------------------------- Backend.close
\* What close() reads and writes of a backend: the ModalBackend's sandbox
\* attribute (0 is None) and whether that sandbox still runs, the
\* DockerBackend's client ("open" or "closed"; the attribute is never None).
BackendState(kind, sandbox, running, client) ==
    [running |-> running, kind |-> kind, sandbox |-> sandbox, client |-> client]

\* what a call gives back: whether it raised, and the backend it leaves
Closed(raised, backend) == [raised |-> raised, backend |-> backend]

\* a close that forgets to set self.sandbox to None
close_modal_keeps_sandbox(backend, terminate_fails) ==
    IF backend.sandbox # 0
    THEN Closed(FALSE, [backend EXCEPT !.running = backend.running /\ terminate_fails])
    ELSE Closed(FALSE, backend)

\* ModalBackend.close (592-601): the exception of terminate() is logged,
\* and the finally block sets self.sandbox to None
close_modal(backend, terminate_fails) ==
    IF backend.sandbox # 0
    THEN Closed(FALSE, [backend EXCEPT !.sandbox = 0,
                                       !.running = backend.running /\ terminate_fails])
    ELSE Closed(FALSE, backend)

\* DockerBackend.close (123-126): the client is closed each time; closing a
\* closed docker client closes its session again and does not raise
close_docker(backend) == Closed(FALSE, [backend EXCEPT !.client = "closed"])

\* LocalBackend.close (115-116) only logs
close_local(backend) == Closed(FALSE, backend)

close(backend, terminate_fails) ==
    IF backend.kind = "modal" THEN close_modal(backend, terminate_fails)
    ELSE IF backend.kind = "docker" THEN close_docker(backend)
    ELSE close_local(backend)

\* close() called twice on a backend, with or without a sandbox
ApplyClose ==
    \E kind \in Backends :
    \E sandbox \in IF kind = "modal" THEN 0..1 ELSE {0} :
    \E fails \in BOOLEAN \X BOOLEAN :
        LET backend == BackendState(kind, sandbox, sandbox # 0,
                                    IF kind = "docker" THEN "open" ELSE "none")
            first == close(backend, fails[1])
            second == close(first.backend, fails[2])
        IN  Apply("close", [backend |-> backend, terminate_fails |-> fails],
                  <<first, second>>)

\* ------------------------------------------------------- memory_limit
\* A byte count is the pair <<mebibytes, bytes below one mebibyte>>, so that
\* 4 GiB and 6 MB - 1 byte are both exact.
MB == 1048576

Num(n) == <<n \div MB, n % MB>>

AtLeast(a, b) == a[1] > b[1] \/ (a[1] = b[1] /\ a[2] >= b[2])

min(a, b) == IF AtLeast(b, a) THEN a ELSE b

\* a byte count times 1024 (unit 1), times 1048576 (unit 2) or times
\* 1073741824 (unit 3)
RECURSIVE Times(_, _)
Times(a, unit) ==
    IF unit = 0 THEN a
    ELSE Times(<<a[1] * 1024 + (a[2] * 1024) \div MB, (a[2] * 1024) % MB>>,
               unit - 1)

\* the largest memory limit a run may have: a limit of 4294967296 becomes
\* 2147483648
MAX_MEMORY_LIMIT == <<2048, 0>>

\* 6291456
MinMemoryLimit == <<6, 0>>

\* The memory_limit argument: None, an int, or a string made of digits and
\* the characters after them.
MemoryLimit(type, number, suffix) ==
    [type |-> type, number |-> number, suffix |-> suffix]

\* the limits asked for: none, the ints and the strings of the tests
MemoryLimits ==
    {MemoryLimit("None", Num(0), <<>>)}
    \cup {MemoryLimit("int", n, <<>>) :
             n \in {Num(6291455), Num(6291456), Num(1073741824), <<2048, 0>>,
                    <<2048, 1>>, <<4096, 0>>}}
    \cup {MemoryLimit("str", Num(nx[1]), nx[2]) :
             nx \in {<<1073741824, <<>> >>, <<1073741824, <<"b">> >>,
                     <<1048576, <<"k">> >>, <<1024, <<"m">> >>, <<1, <<"g">> >>,
                     <<1, <<"t">> >>, <<1, <<"g", "b">> >>, <<4096, <<"M">> >>,
                     <<6291455, <<"B">> >>, <<6291456, <<"B">> >>,
                     <<6143, <<"K">> >>, <<6, <<"m">> >>}}

\* the memory limit of the session's problem: a positive number of bytes
ProblemMemoryLimits == {Num(1), Num(1073741824), <<4096, 0>>}

\* str.lower on one character
Lower(c) ==
    CASE c = "B" -> "b" [] c = "K" -> "k" [] c = "M" -> "m" [] c = "G" -> "g"
      [] OTHER -> c

Parsed(ok, value) == [ok |-> ok, value |-> value]

\* int(text): a ValueError unless the text is digits only
int(number, suffix) ==
    IF suffix = <<>> THEN Parsed(TRUE, number) ELSE Parsed(FALSE, Num(0))

\* the string branch (1090-1104): the last character picks the unit and
\* the text before it must be a number
parse_memory_limit(memory_limit) ==
    LET suffix == [i \in 1..Len(memory_limit.suffix) |->
                      Lower(memory_limit.suffix[i])]
        last == IF suffix = <<>> THEN "" ELSE suffix[Len(suffix)]
        rest == IF suffix = <<>> THEN <<>> ELSE SubSeq(suffix, 1, Len(suffix) - 1)
        unit == CASE last = "b" -> 0 [] last = "k" -> 1 [] last = "m" -> 2
                  [] last = "g" -> 3 [] OTHER -> 0
        text == IF last \in {"b", "k", "m", "g"}
                THEN int(memory_limit.number, rest)
                ELSE int(memory_limit.number, suffix)
    IN  IF text.ok THEN Parsed(TRUE, Times(text.value, unit)) ELSE text

Checked(raised, memory_limit) ==
    [raised |-> raised, memory_limit |-> memory_limit]

\* a check that forgets the lower bound
check_memory_limit_no_minimum(memory_limit, problem_limit) ==
    IF memory_limit.type = "None"
    THEN Checked("none", problem_limit)
    ELSE LET parsed == IF memory_limit.type = "str"
                       THEN parse_memory_limit(memory_limit)
                       ELSE Parsed(TRUE, memory_limit.number)
         IN  IF ~parsed.ok
             THEN Checked("format", Num(0))
             ELSE Checked("none", min(parsed.value, MAX_MEMORY_LIMIT))

\* _check_run_cases_arguments on memory_limit (1086-1107): None takes the
\* problem's limit as it is; a supplied limit is parsed, capped and then
\* compared with 6291456
check_memory_limit(memory_limit, problem_limit) ==
    IF memory_limit.type = "None"
    THEN Checked("none", problem_limit)
    ELSE LET parsed == IF memory_limit.type = "str"
                       THEN parse_memory_limit(memory_limit)
                       ELSE Parsed(TRUE, memory_limit.number)
             capped == min(parsed.value, MAX_MEMORY_LIMIT)
         IN  IF ~parsed.ok
             THEN Checked("format", Num(0))
             ELSE IF ~AtLeast(capped, MinMemoryLimit)
             THEN Checked("too_small", Num(0))
             ELSE Checked("none", capped)

ApplyCheckMemoryLimit ==
    \E memory_limit \in MemoryLimits :
    \E problem_limit \in ProblemMemoryLimits :
        Apply("check_memory_limit",
              [memory_limit |-> memory_limit, problem_limit |-> problem_limit],
              check_memory_limit(memory_limit, problem_limit))

\* ------------------------------------------------------- Standings
\* the largest overall score asked about
MaxRankScore == 101

\* The standings tables of the tests, each a list of <<rank, score>>.
StandingsTables ==
    { << <<1, 0>> >>,
      << <<1, 100>>, <<2, 0>> >>,
      << <<1, 100>>, <<2, 99>>, <<3, 0>> >>,
      << <<1, 100>>, <<99, 99>>, <<100, 0>> >>,
      << <<1, 100>>, <<2, 99>>, <<3, 97>>, <<4, 0>> >>,
      << <<1, 100>>, <<2, 98>>, <<4, 96>>, <<8, 94>>, <<16, 0>> >> }

\* Standings.score_rank_list: <<score, first rank, last rank>> of every
\* row, the last rank being the one before the next row's
score_rank_list(standings_scores) ==
    [i \in 1..Len(standings_scores) |->
        <<standings_scores[i][2], standings_scores[i][1],
          IF i < Len(standings_scores)
          THEN standings_scores[i + 1][1] - 1
          ELSE standings_scores[i][1]>>]

\* the rank and twice the performance rank
Ranked(rank, performance_rank2) ==
    [rank |-> rank, performance_rank2 |-> performance_rank2]

\* a lookup that passes over the row of equal score
get_new_rank_strictly_above(standings_scores, score) ==
    LET rows == score_rank_list(standings_scores)
        below == {i \in 1..Len(rows) : rows[i][1] < score}
        row == rows[CHOOSE i \in below : \A j \in below : i <= j]
    IN  IF below = {} THEN Ranked(rows[Len(rows)][3] + 1, 2 * rows[Len(rows)][3] + 2)
        ELSE Ranked(row[2], 2 * row[2])

\* Standings.get_new_rank for an absolute overall score: the row of the
\* largest score that is at most the new score gives the rank, its first
\* rank; the performance rank is the middle of the row's ranks when the
\* scores are equal and the first rank otherwise
get_new_rank(standings_scores, score) ==
    LET rows == score_rank_list(standings_scores)
        at_most == {i \in 1..Len(rows) : rows[i][1] <= score}
        row == rows[CHOOSE i \in at_most : \A j \in at_most : i <= j]
    IN  IF row[1] = score THEN Ranked(row[2], row[2] + row[3])
        ELSE Ranked(row[2], 2 * row[2])

\* what the tests expect: <<table, overall score, rank, twice the
\* performance rank>>
TestedRanks ==
    LET t1 == << <<1, 0>> >>
        t2 == << <<1, 100>>, <<2, 0>> >>
        t3 == << <<1, 100>>, <<2, 99>>, <<3, 0>> >>
        t4 == << <<1, 100>>, <<99, 99>>, <<100, 0>> >>
        t5 == << <<1, 100>>, <<2, 99>>, <<3, 97>>, <<4, 0>> >>
        t6 == << <<1, 100>>, <<2, 98>>, <<4, 96>>, <<8, 94>>, <<16, 0>> >>
    IN  { <<t1, 1, 1, 2>>, <<t1, 0, 1, 2>>,
          <<t2, 101, 1, 2>>, <<t2, 100, 1, 2>>, <<t2, 99, 2, 4>>,
          <<t2, 0, 2, 4>>,
          <<t3, 101, 1, 2>>, <<t3, 100, 1, 2>>, <<t3, 99, 2, 4>>,
          <<t3, 98, 3, 6>>, <<t3, 0, 3, 6>>,
          <<t4, 101, 1, 2>>, <<t4, 100, 1, 99>>, <<t4, 99, 99, 198>>,
          <<t4, 98, 100, 200>>, <<t4, 0, 100, 200>>,
          <<t5, 101, 1, 2>>, <<t5, 100, 1, 2>>, <<t5, 99, 2, 4>>,
          <<t5, 98, 3, 6>>, <<t5, 97, 3, 6>>, <<t5, 96, 4, 8>>,
          <<t5, 0, 4, 8>>,
          <<t6, 101, 1, 2>>, <<t6, 100, 1, 2>>, <<t6, 99, 2, 4>>,
          <<t6, 98, 2, 5>>, <<t6, 97, 4, 8>>, <<t6, 96, 4, 11>>,
          <<t6, 95, 8, 16>>, <<t6, 94, 8, 23>>, <<t6, 93, 16, 32>>,
          <<t6, 0, 16, 32>> }

ApplyGetNewRank ==
    \E standings_scores \in StandingsTables :
    \E score \in 0..MaxRankScore :
        Apply("get_new_rank",
              [standings_scores |-> standings_scores, score |-> score],
              get_new_rank(standings_scores, score))

\* ------------------------------------------------------- _exec_with_retry
\* What a call of the wrapped operation does: it returns, or it raises an
\* exception of which _exec_with_retry reads two things, whether the message
\* contains "finished" and whether the name of the type contains "NotFound".
FnOutcomes ==
    {[raises |-> FALSE, finished |-> FALSE, not_found |-> FALSE]}
    \cup {[raises |-> TRUE, finished |-> f, not_found |-> n] : f, n \in BOOLEAN}

\* the test of the except block (190)
SandboxDead(e) == e.finished \/ e.not_found

\* what the caller sees: how many times fn was invoked, what was raised
\* ("none", "fn" for an exception of fn, "create" for one of
\* _create_sandbox) and the sandbox the backend holds, 1 being the one it
\* had
Retried(calls, raised, sandbox) ==
    [raised |-> raised, sandbox |-> sandbox, calls |-> calls]

\* a wrapper that goes round again when the retry finds the sandbox dead
exec_with_retry_again(first, create_ok, second) ==
    IF ~first.raises THEN Retried(1, "none", 1)
    ELSE IF ~SandboxDead(first) THEN Retried(1, "fn", 1)
    ELSE IF ~create_ok THEN Retried(1, "create", 1)
    ELSE IF ~second.raises THEN Retried(2, "none", 2)
    ELSE IF SandboxDead(second) THEN Retried(3, "fn", 3)
    ELSE Retried(2, "fn", 2)

\* ModalBackend._exec_with_retry (185-196): fn is called; on an exception
\* that tells a dead sandbox a new sandbox is created and fn is called once
\* more, outside any try; every other exception is raised again
exec_with_retry(first, create_ok, second) ==
    IF ~first.raises THEN Retried(1, "none", 1)
    ELSE IF ~SandboxDead(first) THEN Retried(1, "fn", 1)
    ELSE IF ~create_ok THEN Retried(1, "create", 1)
    ELSE IF ~second.raises THEN Retried(2, "none", 2)
    ELSE Retried(2, "fn", 2)

ApplyExecWithRetry ==
    \E first \in FnOutcomes :
    \E create_ok \in BOOLEAN :
    \E second \in FnOutcomes :
        Apply("exec_with_retry",
              [first |-> first, second |-> second, create_ok |-> create_ok],
              exec_with_retry(first, create_ok, second))

\* the caller takes the value
FnReturned ==
    /\ f_op # "none"
    /\ f_op' = "none"
    /\ f_in' = <<>>
    /\ f_out' = <<>>
    /\ UNCHANGED <<svars, rvars, mvars, ovars, bvars, lvars>>

NextFn ==
    \/ ApplyPrivateEvalResult
    \/ ApplyParseProfiles
    \/ ApplyBatchCase
    \/ ApplyBatchJudge
    \/ ApplyGenerateInputs
    \/ ApplyClose
    \/ ApplyCheckMemoryLimit
    \/ ApplyGetNewRank
    \/ ApplyExecWithRetry
    \/ FnReturned

SpecFn == Init /\ [][NextFn]_vars

Spec == Init /\ [][Next]_vars

\* ========================================================= ModalBackend
\* Two workers call write_file of one ModalBackend at the same time, worker
\* w with remote_path w and content of its own.  Every sandbox.exec is a
\* step.
MaxChunks == 2

\* the base64 text of worker w's content, in chunks of chunk_size
Chunk(w, i) == <<w, i>>

Encoded(w, num_chunks) == [i \in 1..num_chunks |-> Chunk(w, i)]

\* /tmp/_upload.b64 of the sandbox, the same for every call
UploadPath(sandbox, w) == <<sandbox, 0>>

Upload(path) == IF path \in DOMAIN b_upload THEN b_upload[path] ELSE <<>>

File(sandbox, path) ==
    IF <<sandbox, path>> \in DOMAIN b_files THEN b_files[<<sandbox, path>>] ELSE <<>>

\* a worker calls write_file(remote_path, content) with content that is
\* not empty
write_file(w) ==
    /\ b_pc[w] = "idle"
    /\ \E num_chunks \in 1..MaxChunks : b_chunks' = [b_chunks EXCEPT ![w] = num_chunks]
    /\ b_pc' = [b_pc EXCEPT ![w] = "ensure"]
    /\ UNCHANGED <<b_sandbox, b_created, b_local, b_i, b_upload, b_files, b_raised>>
    /\ UNCHANGED <<svars, rvars, mvars, ovars, fvars, lvars>>

\* _ensure_sandbox: the test "self.sandbox is None"; a sandbox verified
\* less than 30 s ago is returned as it is
ensure_sandbox(w) ==
    /\ b_pc[w] = "ensure"
    /\ IF b_sandbox = 0
       THEN /\ b_pc' = [b_pc EXCEPT ![w] = "create"]
            /\ UNCHANGED b_local
       ELSE /\ b_pc' = [b_pc EXCEPT ![w] = "chunk"]
            /\ b_local' = [b_local EXCEPT ![w] = b_sandbox]
    /\ UNCHANGED <<b_sandbox, b_created, b_chunks, b_i, b_upload, b_files, b_raised>>
    /\ UNCHANGED <<svars, rvars, mvars, ovars, fvars, lvars>>

\* self.sandbox = self._create_sandbox(); return self.sandbox
create_sandbox(w) ==
    /\ b_pc[w] = "create"
    /\ b_created' = b_created + 1
    /\ b_sandbox' = b_created + 1
    /\ b_local' = [b_local EXCEPT ![w] = b_created + 1]
    /\ b_pc' = [b_pc EXCEPT ![w] = "chunk"]
    /\ UNCHANGED <<b_chunks, b_i, b_upload, b_files, b_raised>>
    /\ UNCHANGED <<svars, rvars, mvars, ovars, fvars, lvars>>

\* echo -n '{chunk}' > or >> the staging file
upload_chunk(w) ==
    /\ b_pc[w] = "chunk"
    /\ LET path == UploadPath(b_local[w], w)
           chunk == Chunk(w, b_i[w] + 1)
           text == IF b_i[w] = 0 THEN <<chunk>> ELSE Append(Upload(path), chunk)
       IN  b_upload' = [p \in DOMAIN b_upload \cup {path} |->
                           IF p = path THEN text ELSE b_upload[p]]
    /\ b_i' = [b_i EXCEPT ![w] = @ + 1]
    /\ b_pc' = [b_pc EXCEPT ![w] = IF b_i[w] + 1 = b_chunks[w] THEN "decode" ELSE "chunk"]
    /\ UNCHANGED <<b_sandbox, b_created, b_local, b_chunks, b_files, b_raised>>
    /\ UNCHANGED <<svars, rvars, mvars, ovars, fvars, lvars>>

\* base64 -d < staging > remote_path && rm staging: without the staging
\* file the shell fails and write_file raises RuntimeError
decode_upload(w) ==
    /\ b_pc[w] = "decode"
    /\ LET path == UploadPath(b_local[w], w)
           dest == <<b_local[w], w>>
       IN  IF Upload(path) = <<>>
           THEN /\ b_raised' = b_raised \cup {w}
                /\ UNCHANGED <<b_upload, b_files>>
           ELSE /\ b_files' = [f \in DOMAIN b_files \cup {dest} |->
                                  IF f = dest THEN Upload(path) ELSE b_files[f]]
                /\ b_upload' = [p \in DOMAIN b_upload |->
                                   IF p = path THEN <<>> ELSE b_upload[p]]
                /\ UNCHANGED b_raised
    /\ b_pc' = [b_pc EXCEPT ![w] = "done"]
    /\ UNCHANGED <<b_sandbox, b_created, b_local, b_chunks, b_i>>
    /\ UNCHANGED <<svars, rvars, mvars, ovars, fvars, lvars>>

NextBackend ==
    \/ \E w \in Workers : write_file(w)
    \/ \E w \in Workers : ensure_sandbox(w)
    \/ \E w \in Workers : create_sandbox(w)
    \/ \E w \in Workers : upload_chunk(w)
    \/ \E w \in Workers : decode_upload(w)

SpecBackend == Init /\ [][NextBackend]_vars

\* ====================================================== SharedAsyncLoop
\* Two threads call shared_async_loop() and shutdown() of the instance they
\* were handed, in any order and at the same time.  The event loop of an
\* instance is "starting" (its thread is started and has not entered
\* run_forever), "running", "stopping" (running, with loop.stop scheduled),
\* "stopped" (run_forever has returned) or "closed".
MaxLoops == 3

is_closed(loop) == l_loops[loop] = "closed"

is_running(loop) == l_loops[loop] \in {"running", "stopping"}

\* a lock that lets everyone in
Acquire_unlocked(w) == l_lock' = l_lock

\* `with SHARED_ASYNC_LOOP_LOCK`: the lock is a threading.Lock
Acquire(w) == l_lock = 0 /\ l_lock' = w

Release(w) == l_lock' = IF l_lock = w THEN 0 ELSE l_lock

\* a thread calls shared_async_loop() (106-118) and waits for the lock
call_shared_async_loop(w) ==
    /\ l_pc[w] = "idle"
    /\ Len(l_loops) < MaxLoops
    /\ l_pc' = [l_pc EXCEPT ![w] = "get_lock"]
    /\ l_raised' = [l_raised EXCEPT ![w] = FALSE]
    /\ UNCHANGED <<l_global, l_lock, l_loops, l_ref>>
    /\ UNCHANGED <<svars, rvars, mvars, ovars, fvars, bvars>>

get_lock(w) ==
    /\ l_pc[w] = "get_lock"
    /\ Acquire(w)
    /\ l_pc' = [l_pc EXCEPT ![w] = "get_check"]
    /\ UNCHANGED <<l_global, l_loops, l_ref, l_raised>>
    /\ UNCHANGED <<svars, rvars, mvars, ovars, fvars, bvars>>

\* line 116: the instance is kept unless there is none or it is closed
get_check(w) ==
    /\ l_pc[w] = "get_check"
    /\ IF l_global = 0 \/ is_closed(l_global)
       THEN /\ l_pc' = [l_pc EXCEPT ![w] = "get_create"]
            /\ UNCHANGED <<l_lock, l_ref>>
       ELSE /\ l_pc' = [l_pc EXCEPT ![w] = "idle"]
            /\ l_ref' = [l_ref EXCEPT ![w] = l_global]
            /\ Release(w)
    /\ UNCHANGED <<l_global, l_loops, l_raised>>
    /\ UNCHANGED <<svars, rvars, mvars, ovars, fvars, bvars>>

\* line 117, SharedAsyncLoop() (20-30): the loop is made and its thread
\* started; when atexit.register raises, __init__ calls self.shutdown(),
\* which waits for the lock its own thread holds
get_create(w) ==
    /\ l_pc[w] = "get_create"
    /\ Len(l_loops) < MaxLoops
    /\ l_loops' = Append(l_loops, "starting")
    /\ \E registered \in BOOLEAN :
         IF registered
         THEN /\ l_global' = Len(l_loops) + 1
              /\ l_ref' = [l_ref EXCEPT ![w] = Len(l_loops) + 1]
              /\ l_pc' = [l_pc EXCEPT ![w] = "idle"]
              /\ Release(w)
         ELSE /\ l_pc' = [l_pc EXCEPT ![w] = "blocked"]
              /\ UNCHANGED <<l_global, l_ref, l_lock>>
    /\ UNCHANGED l_raised
    /\ UNCHANGED <<svars, rvars, mvars, ovars, fvars, bvars>>

\* a thread calls shutdown() (68-96) of the instance it was handed
call_shutdown(w) ==
    /\ l_pc[w] = "idle"
    /\ l_ref[w] # 0
    /\ l_pc' = [l_pc EXCEPT ![w] = "shutdown_lock"]
    /\ l_raised' = [l_raised EXCEPT ![w] = FALSE]
    /\ UNCHANGED <<l_global, l_lock, l_loops, l_ref>>
    /\ UNCHANGED <<svars, rvars, mvars, ovars, fvars, bvars>>

shutdown_lock(w) ==
    /\ l_pc[w] = "shutdown_lock"
    /\ Acquire(w)
    /\ l_pc' = [l_pc EXCEPT ![w] = "shutdown_check"]
    /\ UNCHANGED <<l_global, l_loops, l_ref, l_raised>>
    /\ UNCHANGED <<svars, rvars, mvars, ovars, fvars, bvars>>

\* lines 71-78: a closed loop is only forgotten; a running one is drained
\* and asked to stop
shutdown_check(w) ==
    /\ l_pc[w] = "shutdown_check"
    /\ LET self == l_ref[w]
       IN  IF is_closed(self)
           THEN /\ l_global' = IF l_global = self THEN 0 ELSE l_global
                /\ l_pc' = [l_pc EXCEPT ![w] = "idle"]
                /\ Release(w)
                /\ UNCHANGED l_loops
           ELSE IF is_running(self)
           THEN /\ l_loops' = [l_loops EXCEPT ![self] = "stopping"]
                /\ l_pc' = [l_pc EXCEPT ![w] = "shutdown_join"]
                /\ UNCHANGED <<l_global, l_lock>>
           ELSE /\ l_pc' = [l_pc EXCEPT ![w] = "shutdown_close"]
                /\ UNCHANGED <<l_global, l_lock, l_loops>>
    /\ UNCHANGED <<l_ref, l_raised>>
    /\ UNCHANGED <<svars, rvars, mvars, ovars, fvars, bvars>>

\* lines 81-86: join(timeout) ends when the thread has stopped or when the
\* time is over
shutdown_join(w) ==
    /\ l_pc[w] = "shutdown_join"
    /\ l_pc' = [l_pc EXCEPT ![w] = "shutdown_close"]
    /\ UNCHANGED <<l_global, l_lock, l_loops, l_ref, l_raised>>
    /\ UNCHANGED <<svars, rvars, mvars, ovars, fvars, bvars>>

\* lines 87-96: loop.close() raises RuntimeError on a loop that is running;
\* otherwise the loop is closed and the instance forgotten
shutdown_close(w) ==
    /\ l_pc[w] = "shutdown_close"
    /\ LET self == l_ref[w]
       IN  IF is_running(self)
           THEN /\ l_raised' = [l_raised EXCEPT ![w] = TRUE]
                /\ UNCHANGED <<l_global, l_loops>>
           ELSE /\ l_loops' = [l_loops EXCEPT ![self] = "closed"]
                /\ l_global' = IF l_global = self THEN 0 ELSE l_global
                /\ UNCHANGED l_raised
    /\ l_pc' = [l_pc EXCEPT ![w] = "idle"]
    /\ Release(w)
    /\ UNCHANGED l_ref
    /\ UNCHANGED <<svars, rvars, mvars, ovars, fvars, bvars>>

\* _run_loop (32-34), the thread of an instance: it enters run_forever, and
\* it leaves it once loop.stop has been scheduled
run_loop(loop) ==
    /\ loop \in 1..Len(l_loops)
    /\ l_loops[loop] \in {"starting", "stopping"}
    /\ l_loops' = [l_loops EXCEPT ![loop] = IF l_loops[loop] = "starting"
                                            THEN "running" ELSE "stopped"]
    /\ UNCHANGED <<l_global, l_lock, l_pc, l_ref, l_raised>>
    /\ UNCHANGED <<svars, rvars, mvars, ovars, fvars, bvars>>

NextLoop ==
    \/ \E w \in Workers : call_shared_async_loop(w)
    \/ \E w \in Workers : get_lock(w)
    \/ \E w \in Workers : get_check(w)
    \/ \E w \in Workers : get_create(w)
    \/ \E w \in Workers : call_shutdown(w)
    \/ \E w \in Workers : shutdown_lock(w)
    \/ \E w \in Workers : shutdown_check(w)
    \/ \E w \in Workers : shutdown_join(w)
    \/ \E w \in Workers : shutdown_close(w)
    \/ \E loop \in 1..MaxLoops : run_loop(loop)

SpecLoop == Init /\ [][NextLoop]_vars

\* ==================================================================== claims
IsCall(fn) == last_call'.fn = fn

SessionEnd == session_started_at + session_duration

\* the guarded fields of each action, as the specification's table lists them
GuardedFields(fn) ==
    CASE fn = "code_run" -> {"execution_time_case_eval"}
      [] fn = "case_gen" -> {"num_case_gen"}
      [] fn = "case_eval" -> {"num_case_eval", "execution_time_case_eval"}
      [] fn = "case_gen_eval" -> {"num_case_gen", "num_case_eval", "execution_time_case_eval"}
      [] fn = "public_eval" -> {"num_call_public_eval"}
      [] fn = "private_eval" -> {"num_call_private_eval"}

SessionUntouched ==
    /\ current_resource_usage' = current_resource_usage
    /\ action_log' = action_log

\* C1: after every action that returns successfully, every component of
\* current_resource_usage is at most the matching component of
\* maximum_resource_usage.
C1_WithinMaximumAfterSuccess ==
    (last_call.fn \in Actions /\ last_call.error = "none")
        => \A f \in Fields : current_resource_usage[f] <= maximum_resource_usage[f]

\* C2: an action called while one of its guarded fields is not strictly below
\* its maximum is refused with an error, and no collaborator is invoked.
C2_RefusedBeforeWork ==
    [][\A fn \in AleBenchFunction :
         (IsCall(fn) /\ \E f \in GuardedFields(fn) :
                           current_resource_usage[f] >= maximum_resource_usage[f])
             => (last_call'.error \in Refusals /\ last_call'.work = {})]_vars

C2_Witness ==
    /\ last_call.fn = "case_eval"
    /\ last_call.error = "exceeded_before"
    /\ last_call.work = {}
    /\ current_resource_usage.num_case_eval < maximum_resource_usage.num_case_eval
    /\ current_resource_usage.execution_time_case_eval
           >= maximum_resource_usage.execution_time_case_eval

\* C3: an action other than private_eval that is called at or after
\* session_started_at + session_duration is refused with the session-finished
\* error, and no generation, execution or evaluation is started.
C3_RefusedAfterSessionEnd ==
    [][\A fn \in Actions \ {"private_eval"} :
         (IsCall(fn) /\ now >= SessionEnd)
             => (last_call'.error = "session_finished" /\ last_call'.work = {})]_vars

C3_Witness ==
    /\ last_call.fn = "case_gen_eval"
    /\ last_call.error = "session_finished"
    /\ last_call.work = {}
    /\ now >= SessionEnd
    /\ current_resource_usage.num_call_private_eval = 0

\* C4: private_eval succeeds at most once: once a private_eval has succeeded,
\* a further private_eval fails with the session-finished error and every
\* other action is refused as well, with nothing changed.
C4_PrivateEvalOnce ==
    [][\A fn \in Actions :
         (IsCall(fn) /\ current_resource_usage.num_call_private_eval >= 1)
             => /\ last_call'.error = "session_finished"
                /\ last_call'.work = {}
                /\ SessionUntouched]_vars

C4_Witness ==
    /\ last_call.fn = "private_eval"
    /\ last_call.error = "session_finished"
    /\ action_log # <<>>
    /\ action_log[Len(action_log)] = "private_eval"
    /\ current_resource_usage.num_call_private_eval = 1
    /\ now < SessionEnd

\* C5: with use_same_time_scale on, a public_eval called before
\* last_public_eval_time + submission_interval is refused, and one called at
\* or after it is not refused by the interval guard; with the flag off the
\* interval guard never refuses.
C5_SubmissionInterval ==
    [][IsCall("public_eval")
         => /\ (use_same_time_scale /\ now < last_public_eval_time + SubmissionInterval)
                 => (last_call'.error \in Refusals /\ last_call'.work = {})
            /\ (use_same_time_scale /\ now >= last_public_eval_time + SubmissionInterval)
                 => last_call'.error # "interval"
            /\ ~use_same_time_scale => last_call'.error # "interval"]_vars

C5_Witness ==
    /\ last_call.fn = "public_eval"
    /\ last_call.error = "interval"
    /\ use_same_time_scale
    /\ now < last_public_eval_time + SubmissionInterval
    /\ current_resource_usage.num_call_public_eval = 1

WouldOverflowCaseGen ==
    /\ IsCall("case_gen_eval")
    /\ current_resource_usage.num_case_gen + last_call'.n
           > maximum_resource_usage.num_case_gen

\* C6, as stated: a case_gen_eval call whose seed count would take
\* num_case_gen above its maximum is rejected before the input generator is
\* invoked, and leaves current_resource_usage and the action log unchanged.
C6_RejectedBeforeGeneration ==
    [][WouldOverflowCaseGen
         => ("gen" \notin last_call'.work /\ SessionUntouched)]_vars

\* C6, amended: such a call never succeeds, runs no evaluation and adds no
\* record to the action log.  When it passes the combined pre-check and the
\* argument checks, the generator is invoked; if the generator delivers, the
\* call is rejected by case_gen's post-check and num_case_gen is left
\* increased by the number of seeds; in every other case the usage is
\* unchanged.
C6_RejectedAfterGeneration ==
    [][WouldOverflowCaseGen
         => /\ last_call'.error # "none"
            /\ "run" \notin last_call'.work
            /\ action_log' = action_log
            /\ IF "gen" \in last_call'.work /\ last_call'.error = "exceeded_after"
               THEN /\ last_call'.failed_in = "case_gen"
                    /\ current_resource_usage' =
                           [current_resource_usage EXCEPT
                               !.num_case_gen = @ + last_call'.n]
               ELSE /\ current_resource_usage' = current_resource_usage
                    /\ last_call'.error # "exceeded_after"]_vars

C6_Witness ==
    /\ last_call.fn = "case_gen_eval"
    /\ last_call.error = "exceeded_after"
    /\ last_call.failed_in = "case_gen"
    /\ "gen" \in last_call.work
    /\ "run" \notin last_call.work
    /\ current_resource_usage.num_case_gen > maximum_resource_usage.num_case_gen

BudgetErrors == {"exceeded_before", "exceeded_after"}

\* C7, as stated: whenever case_gen_eval is refused or fails on the budget of
\* its generation side or of its evaluation side, neither side has taken
\* effect.
C7_NoPartialWork ==
    [][(IsCall("case_gen_eval") /\ last_call'.error \in BudgetErrors)
         => (last_call'.work = {} /\ SessionUntouched)]_vars

\* C7, amended: case_gen_eval does no partial work when its combined
\* pre-guard refuses it: called when the session is finished or when one of
\* num_case_gen, num_case_eval, execution_time_case_eval is not strictly
\* below its maximum, it invokes neither the generator nor the runner and
\* changes neither the usage nor the log.  (A call that passes the pre-guard
\* can still fail in case_gen or case_eval with the generation counted.)
C7_NoPartialWorkWhenPreGuardRefuses ==
    [][(/\ IsCall("case_gen_eval")
        /\ \/ now >= SessionEnd
           \/ current_resource_usage.num_call_private_eval
                  >= maximum_resource_usage.num_call_private_eval
           \/ \E f \in GuardedFields("case_gen_eval") :
                  current_resource_usage[f] >= maximum_resource_usage[f])
         => /\ last_call'.error \in Refusals
            /\ last_call'.failed_in = "case_gen_eval"
            /\ last_call'.work = {}
            /\ SessionUntouched]_vars

C7_Witness ==
    /\ last_call.fn = "case_gen_eval"
    /\ last_call.error = "exceeded_before"
    /\ last_call.work = {}
    /\ current_resource_usage.num_case_gen < maximum_resource_usage.num_case_gen
    /\ current_resource_usage.num_case_eval >= maximum_resource_usage.num_case_eval

\* C8: run_cases returns a list of exactly len(inputs) CaseResults on every
\* path, also when compilation fails and when a case fails or raises.
C8_OneResultPerInput ==
    r_pc = "done" => (~r_raised /\ Len(r_results) = r_args.n)

ParallelPath ==
    /\ compile_outcome(r_args) = "ok"
    /\ r_args.backend # "modal"
    /\ r_args.num_workers > 1
    /\ r_args.n > 1

\* C9: with num_workers > 1 the i-th CaseResult is the result of evaluating
\* inputs[i], whatever the order in which the pipelines complete.
C9_ResultOfItsInput ==
    (r_pc = "done" /\ ParallelPath)
        => \A i \in 1..r_args.n :
              r_args.outcome[i] # "raise"
                  => r_results[i] = CaseResult(r_args.outcome[i], Detail(r_args, i), i)

\* C10: at most num_workers per-case pipelines are in flight at any instant
\* of a run_cases invocation.
C10_AtMostNumWorkersInFlight ==
    r_pc # "idle" => Cardinality(Running) <= r_args.num_workers

C10_Witness ==
    /\ r_pc = "par"
    /\ r_args.num_workers >= 2
    /\ Cardinality(Running) = r_args.num_workers
    /\ Pending # {}

\* C11: in a parallel run_cases every future is run to its end and collected;
\* a pipeline that raised leaves the INTERNAL_ERROR CaseResult of its own
\* input at its own index, and every other index holds what its own future
\* returned.
C11_ExceptionStaysAtItsIndex ==
    (r_pc = "done" /\ ParallelPath)
        => \A i \in 1..r_args.n :
              /\ r_futures[i] \in {"raised", "returned"}
              /\ i \in r_collected
              /\ r_futures[i] = "raised"
                    => r_results[i] = [judge_result |-> "INTERNAL_ERROR",
                                      input_str |-> Detail(r_args, i), case |-> 0,
                                      absolute_score |-> REJECTED_ABSOLUTE_SCORE,
                                      output_str |-> 0, error_str |-> 0]
              /\ r_futures[i] = "returned" => r_results[i].case = i

C11_Witness ==
    /\ r_pc = "done"
    /\ ParallelPath
    /\ r_args.return_details
    /\ r_args.outcome[1] = "raise"
    /\ r_args.outcome[2] = "ACCEPTED"
    /\ r_futures[1] = "raised"
    /\ r_results[1].judge_result = "INTERNAL_ERROR"
    /\ r_results[1].input_str = 1
    /\ r_results[2].input_str = 2

\* C12: when the compile step reports a compilation failure, run_cases runs
\* no per-case step and returns one CaseResult per input, each with
\* judge_result COMPILATION_ERROR and the rejected score.
C12_CompilationErrorForEveryInput ==
    compile_outcome(r_args) = "fail"
        => /\ r_pc \in {"start", "done"}
           /\ r_futures = <<>>
           /\ r_pc = "done"
                 => /\ ~r_raised
                    /\ Len(r_results) = r_args.n
                    /\ \A i \in 1..r_args.n :
                          /\ r_results[i].judge_result = "COMPILATION_ERROR"
                          /\ r_results[i].absolute_score = REJECTED_ABSOLUTE_SCORE
                          /\ r_results[i].case = 0

C12_Witness ==
    /\ compile_outcome(r_args) = "fail"
    /\ r_pc = "done"
    /\ r_args.n >= 2
    /\ Len(r_results) = r_args.n
    /\ r_results[2].judge_result = "COMPILATION_ERROR"

\* what the same invocation returns with num_workers = 1: the sequential
\* loop of _run_cases_docker calls case_iter_func with the backend, input
\* after input, and an exception of a call leaves run_cases
SequentialRaises(args) == \E i \in 1..args.n : case_iter_func(args, i, TRUE) = Raised

SequentialResults(args) == [i \in 1..args.n |-> case_iter_func(args, i, TRUE)]

\* C13: for the same arguments and per-case outcomes, run_cases with
\* num_workers > 1 raises exactly when it raises with num_workers = 1 and
\* otherwise returns the same list of CaseResults.
C13_SameAsSequential ==
    (r_pc = "done" /\ ParallelPath)
        => /\ r_raised = SequentialRaises(r_args)
           /\ ~r_raised => r_results = SequentialResults(r_args)

\* C14, as stated: no two per-case pipelines of a run_cases invocation use
\* the same mutable path.
C14_NoSharedMutablePath ==
    \A i \in Started : \A j \in Started :
        i # j => MutablePaths(r_args, i) \cap MutablePaths(r_args, j) = {}

\* C14, amended: pipelines that can be in flight together (the thread pool of
\* the Docker/local path) write and read files of the shared temp_dir whose
\* names carry their own case index, and share none.  The pipelines of the
\* Modal path share the fixed paths of the sandbox and are never in flight
\* together.
C14_NoSharedMutablePathInFlight ==
    \A i \in Started : \A j \in Started :
        (i # j /\ MutablePaths(r_args, i) \cap MutablePaths(r_args, j) # {})
            => (r_args.backend = "modal" /\ r_futures = <<>>)

C14_Witness ==
    /\ r_pc = "par"
    /\ {1, 2} \subseteq Running
    /\ ~r_args.skip_local_visualization
    /\ MutablePaths(r_args, 1) \cap MutablePaths(r_args, 2) = {}
    /\ MutablePaths(r_args, 1) # {}

\* C15: at most one action is in flight per Session at any time: no two
\* calls on the same Session are between pre-check and post-increment
\* together.
C15_OneActionInFlight ==
    \A p \in ProblemIds : Len(m_inflight[p]) <= 1

C15_Witness ==
    /\ Cardinality(m_sessions) >= 2
    /\ \E p \in m_sessions : m_inflight[p] = <<"case_eval">>

\* C16: a failure of the submitted program (compilation error, runtime
\* error, limit exceeded, wrong answer) never leaves run_cases as an
\* exception: when nothing but the program fails, run_cases returns one
\* CaseResult per input.
C16_UserProgramFailureIsReturned ==
    (/\ r_pc = "done"
     /\ compile_outcome(r_args) # "raise"
     /\ \A i \in 1..r_args.n : r_args.outcome[i] # "raise")
        => (~r_raised /\ Len(r_results) = r_args.n)

\* C17: a per-case infrastructure failure (the backend call fails, the
\* visualiser crashes) is not raised out of run_cases, whatever num_workers
\* is: the case gets an INTERNAL_ERROR CaseResult at its own index.
C17_InfrastructureFailureIsInternalError ==
    (r_pc = "done" /\ compile_outcome(r_args) = "ok")
        => \A i \in 1..r_args.n :
              r_args.outcome[i] = "raise"
                  => /\ ~r_raised
                     /\ Len(r_results) = r_args.n
                     /\ r_results[i].judge_result = "INTERNAL_ERROR"

C19_FirstPrivateEvalAccepted ==
    [][(IsCall("private_eval") /\ current_resource_usage.num_call_private_eval = 0)
         => last_call'.error \notin Refusals]_vars

\* C19, amended: private_eval is under the same clock guard as every other
\* action.  The first private_eval of a session passes the guards exactly
\* when it is called before session_started_at + session_duration; called at
\* or after that time it is refused with the session-finished error, runs
\* nothing and changes nothing.
C19_FirstPrivateEvalOnlyBeforeSessionEnd ==
    [][(IsCall("private_eval") /\ current_resource_usage.num_call_private_eval = 0)
         => IF now < SessionEnd
            THEN last_call'.error \notin Refusals
            ELSE /\ last_call'.error = "session_finished"
                 /\ last_call'.work = {}
                 /\ SessionUntouched]_vars

C19_Witness ==
    /\ last_call.fn = "private_eval"
    /\ last_call.error = "session_finished"
    /\ current_resource_usage.num_call_private_eval = 0
    /\ now >= SessionEnd

\* everything the caller has been handed: what it read from properties and
\* snapshots, and the result of every action that succeeded
AllObserved == observed \cup {ActionResult(action_log[i]) : i \in DOMAIN action_log}

\* C20, as stated: no sequence of public operations (properties, action
\* results, action log, save) hands a private seed value to the caller.
C20_PrivateSeedsNeverObserved ==
    \A o \in AllObserved : o.seeds \cap Range(private_seeds) = {}

\* C20, amended: no property, action result or action log hands a private
\* seed value to the caller (the private_seeds property raises); the one
\* operation that does is save, which writes the private_seeds list into the
\* snapshot file.
C20_PrivateSeedsOnlyInSnapshot ==
    \A o \in AllObserved :
        o.seeds \cap Range(private_seeds) # {}
            => (o.channel = "save" /\ o.name = "private_seeds")

C20_Witness ==
    /\ Out("error", "private_seeds", {}, 0) \in observed
    /\ Out("save", "private_seeds", Range(private_seeds), Len(private_seeds)) \in observed
    /\ action_log = <<"private_eval">>

\* C21: in the Result private_eval returns, every case has input_str,
\* output_str and error_str null, message emptied and no local
\* visualisation, and keeps judge_result, the absolute and the relative
\* score, execution_time and memory_usage.
C21_PrivateResultStripped ==
    f_op = "private_eval_result"
        => /\ Len(f_out) = Len(f_in.case_results)
           /\ \A i \in DOMAIN f_out :
                 /\ f_out[i].input_str = None
                 /\ f_out[i].output_str = None
                 /\ f_out[i].error_str = None
                 /\ f_out[i].message = ""
                 /\ f_out[i].local_visualization = None
                 /\ f_out[i].judge_result = f_in.case_results[i].judge_result
                 /\ f_out[i].absolute_score = f_in.case_results[i].absolute_score
                 /\ f_out[i].relative_score = f_in.relative_scores[i]
                 /\ f_out[i].execution_time = f_in.case_results[i].execution_time
                 /\ f_out[i].memory_usage = f_in.case_results[i].memory_usage

C21_Witness ==
    /\ f_op = "private_eval_result"
    /\ Len(f_out) = 2
    /\ f_in.case_results[2].input_str = "text"
    /\ f_in.case_results[2].message = "Wrong answer."
    /\ f_in.case_results[2].judge_result = "WRONG_ANSWER"
    /\ f_out[2].judge_result = "WRONG_ANSWER"
    /\ f_out[2].input_str = None

\* C22: with return_details false, input_str, output_str and error_str are
\* null in every CaseResult of run_cases, whatever path produced it.
C22_NoDetailsWhenNotAsked ==
    (r_pc # "idle" /\ ~r_args.return_details)
        => \A i \in DOMAIN r_results :
              /\ r_results[i].input_str = 0
              /\ r_results[i].output_str = 0
              /\ r_results[i].error_str = 0

C22_Witness ==
    /\ r_pc = "done"
    /\ ~r_args.return_details
    /\ ~r_raised
    /\ Len(r_results) = 3
    /\ r_results[1].judge_result = "ACCEPTED"
    /\ r_results[2].judge_result = "RUNTIME_ERROR"
    /\ r_results[3].error_str = 0

\* C23: every CaseResult has 0 <= execution_time <= time_limit + 0.1,
\* whatever its verdict.
C23_ExecutionTimeWithinLimit ==
    (f_op = "batch_case")
        => (0 <= f_out.execution_time
            /\ f_out.execution_time <= f_in.time_limit + TimeSlack)

WellFormed(profile) == profile.content # "empty" /\ profile.body = "ok"

\* C24: for a well-formed profile record parse_profiles gives RUNTIME_ERROR
\* when exit_status is not 0, whatever the limits; otherwise
\* TIME_LIMIT_EXCEEDED when execution_time > time_limit or the TLE flag is
\* set, whatever the memory; otherwise MEMORY_LIMIT_EXCEEDED when
\* memory_usage > memory_limit; otherwise the pair (execution_time,
\* memory_usage).
C24_VerdictOrder ==
    (f_op = "parse_profiles" /\ WellFormed(f_in.profile))
        => LET execution_time == Max(f_in.profile.elapsed, f_in.profile.cpu)
               memory_usage == f_in.profile.kbytes * 1024
           IN  f_out.judge_result =
                 IF f_in.profile.exit_status # 0 THEN "RUNTIME_ERROR"
                 ELSE IF execution_time > f_in.time_limit \/ f_in.profile.content = "signal9"
                      THEN "TIME_LIMIT_EXCEEDED"
                 ELSE IF memory_usage > f_in.memory_limit THEN "MEMORY_LIMIT_EXCEEDED"
                 ELSE "none"

C24_Witness ==
    /\ f_op = "parse_profiles"
    /\ WellFormed(f_in.profile)
    /\ f_in.profile.exit_status # 0
    /\ f_in.profile.elapsed > f_in.time_limit
    /\ f_in.profile.kbytes * 1024 > f_in.memory_limit
    /\ f_out.judge_result = "RUNTIME_ERROR"

LastNonEmptyLine(lines) == DropTrailingBlank(lines)[Len(DropTrailingBlank(lines))]

\* C27: for the same arguments and the same behaviour of the user program,
\* run_cases returns under the local backend what it returns under the
\* sandbox (Modal) backend.
C27_LocalSameAsSandbox ==
    (r_pc = "done" /\ r_args.backend = "local")
        => LET sandbox == run_cases_modal([r_args EXCEPT !.backend = "modal"])
           IN  /\ r_raised = sandbox.raised
               /\ ~r_raised => r_results = sandbox.results

\* C28: two write_file calls made at the same time by distinct workers to
\* different destinations each have the effect of the call made alone:
\* neither raises and, when both are over, each destination holds its
\* call's content in the backend's sandbox.
C28_ConcurrentWritesAsAlone ==
    (\A w \in Workers : b_pc[w] = "done")
        => /\ b_raised = {}
           /\ \A w \in Workers : File(b_sandbox, w) = Encoded(w, b_chunks[w])

\* C29: the server's collection of active sessions never holds more than
\* MAX_SESSIONS sessions, however start_session and close_session requests
\* interleave.
C29_AtMostMaxSessions == Cardinality(m_sessions) <= MAX_SESSIONS

\* the collection is full while a problem has no session and a tool of a
\* session is running
C29_Witness ==
    /\ Cardinality(m_sessions) = MAX_SESSIONS
    /\ ProblemIds \ m_sessions # {}
    /\ \E p \in m_sessions : m_inflight[p] # <<>>

C25_AcceptedExactlyWhenScored ==
    f_op = "batch_judge"
        => IF /\ f_in.judge_exit = 0
              /\ DropTrailingBlank(f_in.stderr) # <<>>
              /\ \A i \in DOMAIN f_in.stderr : ~HasWrongAnswer(f_in.stderr[i])
              /\ ScoreMatch(LastNonEmptyLine(f_in.stderr))
           THEN f_out = Judged("ACCEPTED", ScoreOf(LastNonEmptyLine(f_in.stderr)))
           ELSE f_out = Judged("WRONG_ANSWER", REJECTED_ABSOLUTE_SCORE)

C31_UsageNeverDecreases ==
    [][\A f \in Fields : current_resource_usage'[f] >= current_resource_usage[f]]_vars

\* an action that failed on its post-check has raised a counter that an
\* earlier action had raised already
C31_Witness ==
    /\ last_call.error = "exceeded_after"
    /\ current_resource_usage.execution_time_case_eval > MaxExecTime
    /\ current_resource_usage.num_case_gen > 0

\* C32: case_gen called with an empty seed list is accepted and returns an
\* empty list (whenever its pre-checks pass and the generator does not fail).
C32_EmptySeedListAccepted ==
    (/\ last_call.fn = "case_gen"
     /\ last_call.n = 0
     /\ last_call.work = {"gen"}
     /\ last_call.error # "tool")
        => last_call.error = "none"

\* C32, amended: case_gen called with an empty seed list never succeeds;
\* once the generator has returned its empty list the call raises
\* AleBenchError, and it leaves the usage and the action log unchanged.
C32_EmptySeedListRefused ==
    [][(last_call = NoCall /\ last_call'.fn = "case_gen" /\ last_call'.n = 0)
          => /\ last_call'.error # "none"
             /\ last_call'.work = {"gen"} => last_call'.error \in {"tool", "generation_failed"}
             /\ current_resource_usage' = current_resource_usage
             /\ action_log' = action_log]_vars

C32_Witness ==
    /\ last_call.fn = "case_gen"
    /\ last_call.n = 0
    /\ last_call.work = {"gen"}
    /\ last_call.error = "generation_failed"

C34_EffectiveLimitInRange ==
    (f_op = "check_memory_limit" /\ f_out.raised = "none")
        => /\ AtLeast(f_out.memory_limit, MinMemoryLimit)
           /\ AtLeast(MAX_MEMORY_LIMIT, f_out.memory_limit)

\* C34, amended: when a memory limit is supplied and accepted, the limit in
\* effect lies between 6 MB and MAX_MEMORY_LIMIT: 6 MB - 1 byte is refused,
\* 6 MB is accepted and 4 GiB becomes MAX_MEMORY_LIMIT; when no limit is
\* supplied the limit in effect is the problem's, whatever it is.
C34_SuppliedLimitInRange ==
    f_op = "check_memory_limit"
        => /\ (f_in.memory_limit.type # "None" /\ f_out.raised = "none")
                => /\ AtLeast(f_out.memory_limit, MinMemoryLimit)
                   /\ AtLeast(MAX_MEMORY_LIMIT, f_out.memory_limit)
           /\ f_in.memory_limit = MemoryLimit("int", Num(6291455), <<>>)
                => f_out.raised = "too_small"
           /\ f_in.memory_limit = MemoryLimit("int", Num(6291456), <<>>)
                => f_out = Checked("none", Num(6291456))
           /\ f_in.memory_limit = MemoryLimit("int", <<4096, 0>>, <<>>)
                => f_out = Checked("none", MAX_MEMORY_LIMIT)
           /\ f_in.memory_limit.type = "None"
                => f_out = Checked("none", f_in.problem_limit)

\* "4096M" is supplied and the run gets MAX_MEMORY_LIMIT
C34_Witness ==
    /\ f_op = "check_memory_limit"
    /\ f_in.memory_limit = MemoryLimit("str", Num(4096), <<"M">>)
    /\ f_out = Checked("none", MAX_MEMORY_LIMIT)

\* C35: the rank returned for an overall score is the lowest rank among the
\* rows of the table whose score is at most that score, and it is 1 when
\* the score is at least the top score; on the inputs of the tests the rank
\* and the performance rank are the ones the tests expect.
C35_LowestRankNotAbove ==
    f_op = "get_new_rank"
        => LET table == f_in.standings_scores
               ranks == {table[i][1] : i \in {j \in 1..Len(table) :
                                                 table[j][2] <= f_in.score}}
           IN  /\ f_out.rank \in ranks
               /\ \A r \in ranks : f_out.rank <= r
               /\ f_in.score >= table[1][2] => f_out.rank = 1
               /\ \A t \in TestedRanks :
                     (t[1] = table /\ t[2] = f_in.score)
                         => f_out = Ranked(t[3], t[4])

\* a score equal to the score of a row shared by several ranks, below the
\* top
C35_Witness ==
    /\ f_op = "get_new_rank"
    /\ f_in.score = 96
    /\ Len(f_in.standings_scores) = 5
    /\ f_out.rank = 4

\* C36: in every state of the Session, the one left by an action that
\* raised on its post-check included, every component of
\* current_resource_usage is at most the matching component of
\* maximum_resource_usage.
C36_NeverAboveMaximum ==
    \A f \in Fields : current_resource_usage[f] <= maximum_resource_usage[f]

\* C37: last_public_eval_time changes only in a step that is a public_eval
\* returning successfully; a public_eval that raises, during the
\* evaluation or on its post-check, leaves it as it was.
C37_StampedOnlyOnSuccess ==
    [][last_public_eval_time' # last_public_eval_time
          => (last_call'.fn = "public_eval" /\ last_call'.error = "none")]_vars

C39_AtMostOneRetry ==
    f_op = "exec_with_retry"
        => /\ f_out.calls \in {1, 2}
           /\ f_out.calls = 2
                <=> (f_in.first.raises /\ SandboxDead(f_in.first) /\ f_in.create_ok)
           /\ f_out.calls = 2
                => /\ f_out.sandbox # 1
                   /\ f_out.raised = IF f_in.second.raises THEN "fn" ELSE "none"
           /\ f_out.calls = 1
                => /\ f_out.sandbox = 1
                   /\ f_out.raised = IF ~f_in.first.raises THEN "none"
                                     ELSE IF SandboxDead(f_in.first) THEN "create"
                                     ELSE "fn"

\* the first call finds the sandbox finished, and so does the retry
C39_Witness ==
    /\ f_op = "exec_with_retry"
    /\ f_in.first = [raises |-> TRUE, finished |-> TRUE, not_found |-> FALSE]
    /\ f_in.second = [raises |-> TRUE, finished |-> TRUE, not_found |-> FALSE]
    /\ f_in.create_ok
    /\ f_out = Retried(2, "fn", 2)

\* the instances whose loop is not closed
OpenLoops == {i \in 1..Len(l_loops) : ~is_closed(i)}

\* C40: under every interleaving of shared_async_loop() and shutdown()
\* calls of two threads, at most one SharedAsyncLoop whose loop is not
\* closed exists, and a thread that was handed an instance whose loop is
\* not closed holds the one SHARED_ASYNC_LOOP names.
C40_AtMostOneOpenLoop ==
    /\ Cardinality(OpenLoops) <= 1
    /\ \A w \in Workers :
          (l_ref[w] # 0 /\ ~is_closed(l_ref[w])) => l_ref[w] = l_global

\* a second instance is running after the first was closed, one thread
\* still holding the first
C40_Witness ==
    /\ Len(l_loops) >= 2
    /\ is_closed(1)
    /\ is_running(2)
    /\ \E w \in Workers : l_ref[w] = 1
    /\ \E w \in Workers : l_ref[w] = 2

====